---- MODULE Spec2Model ----
(***************************************************************************)
(* Model of cumulusci/tasks/bulkdata/step.py: the Bulk API batch           *)
(* partitioner (BulkApiDmlOperation._batch), the job poller                *)
(* (BulkJobMixin._parse_job_state and _wait_for_job), the strategy         *)
(* selectors (get_dml_operation, get_query_operation) and the DML          *)
(* operation lifecycle (start, load_records, end).                         *)
(*                                                                         *)
(* Three specifications share the variables:                               *)
(*   SpecBatch   one run of the _batch generator over bounded inputs       *)
(*   SpecPoll    end() / query() polling a job with arbitrary batches      *)
(*   SpecSelect  get_dml_operation / get_query_operation followed by the   *)
(*               lifecycle of the selected DML operation                   *)
(***************************************************************************)
EXTENDS Naturals, Integers, Sequences, FiniteSets, TLC

(***************************************************************************)
(* Bounds of the model.                                                    *)
(***************************************************************************)
MaxRecs == 3
MaxN == 2
MaxCharLimit == 13
MaxBatches == 2
MaxPolls == 3
MaxLoad == 1
MaxEntries == 2

MaxRestRecs == 3

MaxChunk == 2

MaxRows == 2

MaxResultSets == 2

MaxLifeRecs == 2

MaxLoads == 2

MaxReloadRecs == 1

MaxQueryRecs == 2

(***************************************************************************)
(* Generic helpers.                                                        *)
(***************************************************************************)
RECURSIVE Concat(_)
Concat(seqs) ==
    IF seqs = <<>> THEN <<>> ELSE Head(seqs) \o Concat(Tail(seqs))

SeqsUpTo(S, k) == UNION {[1..m -> S] : m \in 0..k}

(***************************************************************************)
(* csv.writer (excel dialect) followed by .encode("utf-8").  A field is a  *)
(* sequence of code points, a record a sequence of fields, a serialized    *)
(* row a sequence of bytes.                                                *)
(***************************************************************************)
COMMA == 44
QUOTE == 34
CR == 13
LF == 10

NeedsQuotes(field) ==
    \E i \in 1..Len(field) : field[i] \in {COMMA, QUOTE, CR, LF}

RECURSIVE DoubleQuotes(_)
DoubleQuotes(field) ==
    IF field = <<>> THEN <<>>
    ELSE (IF Head(field) = QUOTE THEN <<QUOTE, QUOTE>> ELSE <<Head(field)>>)
         \o DoubleQuotes(Tail(field))

WriteField(field) ==
    IF NeedsQuotes(field)
    THEN <<QUOTE>> \o DoubleQuotes(field) \o <<QUOTE>>
    ELSE field

RECURSIVE JoinFields(_)
JoinFields(record) ==
    IF record = <<>> THEN <<>>
    ELSE IF Len(record) = 1 THEN WriteField(record[1])
    ELSE WriteField(record[1]) \o <<COMMA>> \o JoinFields(Tail(record))

\* csv.writer.writerow: a row of one empty field is written as "".
WriteRow(record) ==
    (IF Len(record) = 1 /\ record[1] = <<>>
     THEN <<QUOTE, QUOTE>>
     ELSE JoinFields(record)) \o <<CR, LF>>

\* What stands for the UnicodeEncodeError that str.encode("utf-8") raises;
\* no encoding equals it (bytes are not negative).
UnicodeEncodeError == <<-4>>

\* The UTF-8 encoding of one code point; a surrogate (U+D800..U+DFFF)
\* cannot be encoded.
Utf8(cp) ==
    IF cp < 128 THEN <<cp>>
    ELSE IF cp < 2048 THEN <<192 + (cp \div 64), 128 + (cp % 64)>>
    ELSE IF cp >= 55296 /\ cp <= 57343 THEN UnicodeEncodeError
    ELSE IF cp < 65536
    THEN <<224 + (cp \div 4096), 128 + ((cp \div 64) % 64), 128 + (cp % 64)>>
    ELSE <<240 + (cp \div 262144), 128 + ((cp \div 4096) % 64),
           128 + ((cp \div 64) % 64), 128 + (cp % 64)>>

\* line 372: the bytes of str, or UnicodeEncodeError when a code point of
\* str cannot be encoded
RECURSIVE Encode(_)
Encode(str) ==
    IF str = <<>> THEN <<>>
    ELSE LET head == Utf8(Head(str))
             tail == Encode(Tail(str))
         IN  IF head = UnicodeEncodeError \/ tail = UnicodeEncodeError
             THEN UnicodeEncodeError
             ELSE head \o tail

\* lines 368-377: the row is written to the shared buffer, whose content
\* buff is encoded: the serialized record, or UnicodeEncodeError when encode
\* raises
_serialize_csv_record(buff, record) == Encode(buff \o WriteRow(record))

\* lines 369-375: the content of the shared buffer after the call; it is
\* emptied (lines 374-375) only when encode has not raised
BufferAfter(buff, record) ==
    IF _serialize_csv_record(buff, record) = UnicodeEncodeError
    THEN buff \o WriteRow(record)
    ELSE <<>>

(***************************************************************************)
(* Inputs of the partitioner: records and header field lists are drawn     *)
(* from small pools whose serialized sizes differ (3, 4, 6, 7 and 4, 6).   *)
(***************************************************************************)
RecordPool ==
    { << <<97>> >>,                 \* a        -> 3 bytes
      << <<233>> >>,                \* e-acute  -> 4 bytes (2-byte UTF-8)
      << <<128512>> >>,             \* U+1F600  -> 6 bytes (4-byte UTF-8)
      << <<97>>, <<COMMA>> >>,      \* a , ","  -> 7 bytes (quoted field)
      << <<55296>> >> }             \* U+D800   -> cannot be encoded

FieldsPool ==
    { << <<73, 100>> >>,            \* Id       -> 4 bytes
      << <<73, 100>>, <<78>> >> }   \* Id,N     -> 6 bytes

VARIABLES
    records,        \* the records iterator's content (list of records)
    fields,         \* self.fields
    n,              \* _batch parameter n
    char_limit,     \* _batch parameter char_limit
    pos,            \* number of records already taken from the iterator
    batch,          \* _batch local: the batch under construction
    current_chars,  \* _batch local
    csv_buff,       \* the text in self.csv_buff between two calls
    yielded,        \* the batches yielded so far, in order
    bpc,            \* position of the generator: "start", "loop", a yield, "done"
    api_class,      \* class of the operation instance
    pc,             \* position of the caller in the operation's lifecycle
                    \* ("final": the scope was left by an exception)
    job_batches,    \* the platform's batchInfo list of the operation's job
    result,         \* _wait_for_job local: outcome derived by the last poll
    job_result,     \* self.job_result
    closed,         \* number of close_job calls made for the job
    polls,          \* number of status polls made by _wait_for_job
    batch_ids,      \* self.batch_ids of a bulk DML operation
    results,        \* self.results of a REST DML operation
    error,          \* exception that ended the lifecycle, or "none"
    operation,      \* DataOperationType of the requested DML operation
    volume,         \* get_dml_operation parameter volume
    api,            \* DataApi requested from the selector
    sobject,        \* name of the object operated on
    record_count_response,  \* the platform's limits/recordCount response
    count_fetches,  \* number of limits/recordCount requests made
    batch_size,     \* api_options.get("batch_size", 200) of a REST operation
    boolean_fields, \* self.boolean_fields of a REST DML operation
    platform,       \* the batch descriptions the platform reports in this run
    query_response, \* self.response of a REST query operation
    calls,          \* the collaborator calls made since the initial state
    sleeps,         \* number of time.sleep(10) calls made by _wait_for_job
    loads,          \* number of load_records calls made on the instance
    result_files,   \* the platform's result sets of the job, in order
    gpc,            \* position of the get_results generator
    gidx,           \* number of result sets get_results is done with
    grow,           \* number of rows yielded from the current result set
    temp_exists,    \* the temporary file of download_file exists
    out,            \* what get_results has yielded so far, in order
    gerror,         \* the exception get_results raised, or NoError
    downloads       \* the result sets whose download was attempted, in order

bvars == <<records, fields, n, char_limit, pos, batch, current_chars,
           csv_buff, yielded, bpc>>

jvars == <<api_class, pc, job_batches, result, job_result, closed, polls,
           batch_ids, results, error>>

svars == <<operation, volume, api, sobject, record_count_response,
           count_fetches>>

rvars == <<batch_size, boolean_fields, platform, query_response>>

lvars == <<calls, sleeps, loads>>

gvars == <<result_files, gpc, gidx, grow, temp_exists, out, gerror,
           downloads>>

vars == <<records, fields, n, char_limit, pos, batch, current_chars,
          csv_buff, yielded, bpc, api_class, pc, job_batches, result, job_result,
          closed, polls, batch_ids, results, error, operation, volume, api,
          sobject, record_count_response, count_fetches, batch_size,
          boolean_fields, platform, query_response, calls, sleeps, loads,
          result_files, gpc, gidx,
          grow,
          temp_exists, out, gerror, downloads>>

\* DataOperationJobResult (lines 59-62); NoResult stands for None.
DataOperationJobResult(status, job_errors, records_processed, total_row_errors) ==
    [status |-> status, job_errors |-> job_errors,
     records_processed |-> records_processed,
     total_row_errors |-> total_row_errors]

NoResult == DataOperationJobResult("None", <<>>, 0, 0)

\* query() of a REST query operation has stored no response.
NoResponse == [totalSize |-> 0, records |-> <<>>]

\* The partitioner is not running.
BatchIdle ==
    /\ records = <<>>
    /\ fields = <<>>
    /\ n = 0
    /\ char_limit = 0
    /\ pos = 0
    /\ batch = <<>>
    /\ current_chars = 0
    /\ csv_buff = <<>>
    /\ yielded = <<>>
    /\ bpc = "idle"

\* No operation instance exists.
JobIdle ==
    /\ api_class = "none"
    /\ pc = "idle"
    /\ job_batches = <<>>
    /\ result = NoResult
    /\ job_result = NoResult
    /\ closed = 0
    /\ polls = 0
    /\ batch_ids = <<>>
    /\ results = <<>>
    /\ error = "none"

\* The selectors have not been called.
SelectIdle ==
    /\ operation = "none"
    /\ volume = 0
    /\ api = "none"
    /\ sobject = "none"
    /\ record_count_response = <<>>
    /\ count_fetches = 0

\* No REST DML operation was constructed.
RestIdle ==
    /\ batch_size = 0
    /\ boolean_fields = <<>>
    /\ query_response = NoResponse

\* No collaborator was called yet.
LogIdle ==
    /\ calls = <<>>
    /\ sleeps = 0
    /\ loads = 0

\* A collaborator call about a batch (0: about the job).
Call(name, arg) == [name |-> name, arg |-> arg]

BulkCall(name, id, data) == Call(name, [batch |-> id, data |-> data])

NoError == [type |-> "none", batch |-> 0]

\* get_results was not called and the platform holds no result set.
ResultsIdle ==
    /\ result_files = <<>>
    /\ gpc = "idle"
    /\ gidx = 0
    /\ grow = 0
    /\ temp_exists = FALSE
    /\ out = <<>>
    /\ gerror = NoError
    /\ downloads = <<>>

(***************************************************************************)
(* BulkApiDmlOperation._batch                                              *)
(***************************************************************************)
\* Variant of OverCharLimit that forgets the size of the batch so far.
OverCharLimit_RecordOnly(serialized_record, chars, limit) ==
    Len(serialized_record) > limit

\* line 349: does the next record put us over the character limit?
OverCharLimit(serialized_record, chars, limit) ==
    Len(serialized_record) + chars > limit

\* Variant of AtDesiredSize that closes the batch one record too late.
AtDesiredSize_Late(b, size) == Len(b) - 1 > size

\* line 359: yield batch if we're at desired size
AtDesiredSize(b, size) == Len(b) - 1 = size

\* lines 350-352 and 360-362: yield batch, start a new one with the header
YieldBatch(st, header) ==
    [batch |-> <<header>>,
     current_chars |-> Len(header),
     out |-> Append(st.out, st.batch)]

\* lines 354-355
AppendRecord(st, serialized_record) ==
    [batch |-> Append(st.batch, serialized_record),
     current_chars |-> st.current_chars + Len(serialized_record),
     out |-> st.out]

\* lines 346-362: one iteration of "for record in records"
BatchIteration(st, record, header, size, limit) ==
    LET serialized_record == _serialize_csv_record(<<>>, record)
        s1 == IF OverCharLimit(serialized_record, st.current_chars, limit)
              THEN YieldBatch(st, header)
              ELSE st
        s2 == AppendRecord(s1, serialized_record)
    IN  IF AtDesiredSize(s2.batch, size) THEN YieldBatch(s2, header) ELSE s2

\* Variant of BatchLeftover that loses a leftover batch of a single record.
BatchLeftover_OffByOne(st) ==
    IF Len(st.batch) > 2 THEN Append(st.out, st.batch) ELSE st.out

\* lines 364-366: give back anything leftover
BatchLeftover(st) ==
    IF Len(st.batch) > 1 THEN Append(st.out, st.batch) ELSE st.out

BatchState == [batch |-> batch, current_chars |-> current_chars, out |-> yielded]

\* lines 340-345: the generator is started and the header serialized
BatchBegin ==
    /\ bpc = "start"
    /\ LET header == _serialize_csv_record(csv_buff, fields)
       IN  IF header = UnicodeEncodeError
           THEN /\ bpc' = "raised"
                /\ UNCHANGED <<batch, current_chars>>
           ELSE /\ batch' = <<header>>
                /\ current_chars' = Len(header)
                /\ bpc' = "loop"
    /\ csv_buff' = BufferAfter(csv_buff, fields)
    /\ UNCHANGED <<records, fields, n, char_limit, pos, yielded>>
    /\ UNCHANGED jvars
    /\ UNCHANGED svars
    /\ UNCHANGED <<rvars, lvars, gvars>>

\* lines 357-360: the batch st.batch is yielded if it is at the desired
\* size; the generator is then suspended at line 360, still holding it
AppendedBatch(st) ==
    /\ batch' = st.batch
    /\ current_chars' = st.current_chars
    /\ IF AtDesiredSize(st.batch, n)
       THEN /\ yielded' = Append(st.out, st.batch)
            /\ bpc' = "yield360"
       ELSE /\ yielded' = st.out
            /\ bpc' = "loop"

\* lines 346-350 and 354-360: the next record is taken and serialized; if
\* it puts the batch over the character limit the batch is yielded and the
\* generator is suspended at line 350; otherwise the record is appended
BatchNext ==
    /\ bpc = "loop"
    /\ pos < Len(records)
    /\ pos' = pos + 1
    /\ LET serialized_record ==
               _serialize_csv_record(csv_buff, records[pos + 1])
       IN  IF serialized_record = UnicodeEncodeError
           THEN /\ bpc' = "raised"
                /\ UNCHANGED <<batch, current_chars, yielded>>
           ELSE IF OverCharLimit(serialized_record, current_chars, char_limit)
           THEN /\ yielded' = Append(yielded, batch)
                /\ bpc' = "yield350"
                /\ UNCHANGED <<batch, current_chars>>
           ELSE AppendedBatch(AppendRecord(BatchState, serialized_record))
    /\ csv_buff' = BufferAfter(csv_buff, records[pos + 1])
    /\ UNCHANGED <<records, fields, n, char_limit>>
    /\ UNCHANGED jvars
    /\ UNCHANGED svars
    /\ UNCHANGED <<rvars, lvars, gvars>>

\* lines 351-360: resumed after the yield of line 350, the generator starts
\* a new batch with the header (the first row of every batch) and appends
\* the record it had serialized
BatchResumeChars ==
    /\ bpc = "yield350"
    /\ LET header == Head(batch)
       IN  AppendedBatch(AppendRecord(
               [batch |-> <<header>>, current_chars |-> Len(header),
                out |-> yielded],
               _serialize_csv_record(csv_buff, records[pos])))
    /\ UNCHANGED <<records, fields, n, char_limit, pos, csv_buff>>
    /\ UNCHANGED jvars
    /\ UNCHANGED svars
    /\ UNCHANGED <<rvars, lvars, gvars>>

\* lines 361-362: resumed after the yield of line 360, the generator starts
\* a new batch with the header
BatchResumeSize ==
    /\ bpc = "yield360"
    /\ batch' = <<Head(batch)>>
    /\ current_chars' = Len(Head(batch))
    /\ bpc' = "loop"
    /\ UNCHANGED <<records, fields, n, char_limit, pos, csv_buff, yielded>>
    /\ UNCHANGED jvars
    /\ UNCHANGED svars
    /\ UNCHANGED <<rvars, lvars, gvars>>

\* lines 364-366: the records are exhausted; a leftover batch is yielded
\* (the generator is suspended at line 366), or the generator ends
BatchFinish ==
    /\ bpc = "loop"
    /\ pos = Len(records)
    /\ yielded' = BatchLeftover(BatchState)
    /\ bpc' = IF yielded' # yielded THEN "yield366" ELSE "done"
    /\ UNCHANGED <<records, fields, n, char_limit, pos, batch, current_chars,
                   csv_buff>>
    /\ UNCHANGED jvars
    /\ UNCHANGED svars
    /\ UNCHANGED <<rvars, lvars, gvars>>

\* resumed after the yield of line 366, the generator ends
BatchResumeLeftover ==
    /\ bpc = "yield366"
    /\ bpc' = "done"
    /\ UNCHANGED <<records, fields, n, char_limit, pos, batch, current_chars,
                   csv_buff, yielded>>
    /\ UNCHANGED jvars
    /\ UNCHANGED svars
    /\ UNCHANGED <<rvars, lvars, gvars>>

InitBatch ==
    /\ records \in SeqsUpTo(RecordPool, MaxRecs)
    /\ fields \in FieldsPool
    /\ n \in 1..MaxN
    /\ char_limit \in 0..MaxCharLimit
    /\ pos = 0
    /\ batch = <<>>
    /\ current_chars = 0
    /\ csv_buff = <<>>
    /\ yielded = <<>>
    /\ bpc = "start"
    /\ JobIdle
    /\ SelectIdle
    /\ RestIdle
    /\ platform = {}
    /\ LogIdle
    /\ ResultsIdle

NextBatch ==
    \/ BatchBegin
    \/ BatchNext
    \/ BatchResumeChars
    \/ BatchResumeSize
    \/ BatchFinish
    \/ BatchResumeLeftover

SpecBatch == InitBatch /\ [][NextBatch]_vars

(***************************************************************************)
(* The platform's answer to GET /job/<id>/batch: a batchInfoList, one      *)
(* batchInfo per batch of the job.  An element that may be missing is a    *)
(* sequence of zero or one values (the element's text).                    *)
(***************************************************************************)
BatchStates == {"Queued", "InProgress", "Completed", "Failed", "Not Processed"}

\* The two record counts are reported together or not at all.
BatchInfo ==
    {b \in [state : BatchStates,
            stateMessage : {<<>>, <<"msg">>},
            numberRecordsFailed : {<<>>, <<0>>, <<1>>},
            numberRecordsProcessed : {<<>>, <<2>>}] :
        (b.numberRecordsFailed = <<>>) <=> (b.numberRecordsProcessed = <<>>)}

\* States a batch may have moved to by the next poll.
LaterStates(state) ==
    CASE state = "Queued" -> BatchStates
      [] state = "InProgress" -> BatchStates \ {"Queued"}
      [] OTHER -> {state}

LaterBatches(xml) ==
    LET reported == {b.state : b \in platform}
        later == {f \in [1..Len(xml) -> reported] :
                     \A i \in 1..Len(xml) : f[i] \in LaterStates(xml[i].state)}
    IN  {[i \in 1..Len(xml) |-> [xml[i] EXCEPT !.state = f[i]]] : f \in later}

(***************************************************************************)
(* BulkJobMixin._parse_job_state                                           *)
(***************************************************************************)
\* lines 98-101: tree.iterfind collects every matching element, in order
IterFindState(xml) == [i \in 1..Len(xml) |-> xml[i].state]

IterFindStateMessage(xml) ==
    Concat([i \in 1..Len(xml) |-> xml[i].stateMessage])

\* lines 103, 105: tree.find returns the first matching element, or None
RECURSIVE FindNumberRecordsFailed(_)
FindNumberRecordsFailed(xml) ==
    IF xml = <<>> THEN <<>>
    ELSE IF Head(xml).numberRecordsFailed # <<>>
         THEN Head(xml).numberRecordsFailed
         ELSE FindNumberRecordsFailed(Tail(xml))

RECURSIVE FindNumberRecordsProcessed(_)
FindNumberRecordsProcessed(xml) ==
    IF xml = <<>> THEN <<>>
    ELSE IF Head(xml).numberRecordsProcessed # <<>>
         THEN Head(xml).numberRecordsProcessed
         ELSE FindNumberRecordsProcessed(Tail(xml))

\* "x in statuses"
In(x, list) == \E i \in 1..Len(list) : list[i] = x

\* Variant of _parse_job_state that tests "Failed" before "InProgress".
_parse_job_state_FailedFirst(xml) ==
    LET statuses == IterFindState(xml)
        state_messages == IterFindStateMessage(xml)
        failures == FindNumberRecordsFailed(xml)
        record_failure_count == IF failures # <<>> THEN failures[1] ELSE 0
        processed == FindNumberRecordsProcessed(xml)
        records_processed == IF processed # <<>> THEN processed[1] ELSE 0
    IN  IF In("Not Processed", statuses)
        THEN DataOperationJobResult("ABORTED", <<>>, records_processed,
                                    record_failure_count)
        ELSE IF In("Failed", statuses)
        THEN DataOperationJobResult("JOB_FAILURE", state_messages,
                                    records_processed, record_failure_count)
        ELSE IF In("InProgress", statuses) \/ In("Queued", statuses)
        THEN DataOperationJobResult("IN_PROGRESS", <<>>, records_processed,
                                    record_failure_count)
        ELSE IF record_failure_count # 0
        THEN DataOperationJobResult("ROW_FAILURE", <<>>, records_processed,
                                    record_failure_count)
        ELSE DataOperationJobResult("SUCCESS", <<>>, records_processed,
                                    record_failure_count)

\* Variant of _parse_job_state that tests the record failures before "Failed".
_parse_job_state_RowsFirst(xml) ==
    LET statuses == IterFindState(xml)
        state_messages == IterFindStateMessage(xml)
        failures == FindNumberRecordsFailed(xml)
        record_failure_count == IF failures # <<>> THEN failures[1] ELSE 0
        processed == FindNumberRecordsProcessed(xml)
        records_processed == IF processed # <<>> THEN processed[1] ELSE 0
    IN  IF In("Not Processed", statuses)
        THEN DataOperationJobResult("ABORTED", <<>>, records_processed,
                                    record_failure_count)
        ELSE IF In("InProgress", statuses) \/ In("Queued", statuses)
        THEN DataOperationJobResult("IN_PROGRESS", <<>>, records_processed,
                                    record_failure_count)
        ELSE IF record_failure_count # 0
        THEN DataOperationJobResult("ROW_FAILURE", <<>>, records_processed,
                                    record_failure_count)
        ELSE IF In("Failed", statuses)
        THEN DataOperationJobResult("JOB_FAILURE", state_messages,
                                    records_processed, record_failure_count)
        ELSE DataOperationJobResult("SUCCESS", <<>>, records_processed,
                                    record_failure_count)

\* lines 95-139
_parse_job_state(xml) ==
    LET statuses == IterFindState(xml)
        state_messages == IterFindStateMessage(xml)
        failures == FindNumberRecordsFailed(xml)
        record_failure_count == IF failures # <<>> THEN failures[1] ELSE 0
        processed == FindNumberRecordsProcessed(xml)
        records_processed == IF processed # <<>> THEN processed[1] ELSE 0
    IN  IF In("Not Processed", statuses)
        THEN DataOperationJobResult("ABORTED", <<>>, records_processed,
                                    record_failure_count)
        ELSE IF In("InProgress", statuses) \/ In("Queued", statuses)
        THEN DataOperationJobResult("IN_PROGRESS", <<>>, records_processed,
                                    record_failure_count)
        ELSE IF In("Failed", statuses)
        THEN DataOperationJobResult("JOB_FAILURE", state_messages,
                                    records_processed, record_failure_count)
        ELSE IF record_failure_count # 0
        THEN DataOperationJobResult("ROW_FAILURE", <<>>, records_processed,
                                    record_failure_count)
        ELSE DataOperationJobResult("SUCCESS", <<>>, records_processed,
                                    record_failure_count)

(***************************************************************************)
(* BulkJobMixin._wait_for_job, BulkApiDmlOperation.end and                 *)
(* BulkApiQueryOperation.query                                             *)
(***************************************************************************)
\* Variant of LoopBreaks that leaves the loop after the first poll.
LoopBreaks_Always(r) == TRUE

\* line 149: if result.status is not DataOperationStatus.IN_PROGRESS: break
LoopBreaks(r) == r.status # "IN_PROGRESS"

\* line 152 executed twice per iteration
SleepCount_Twice(s) == s + 2

\* line 152: one time.sleep(10) per iteration that does not break
SleepCount(s) == s + 1

\* lines 208-211: create_query_job and bulk.query; the platform creates the
\* batch of the query (and possibly further batches) in some state.
Query ==
    /\ api_class = "BulkApiQueryOperation"
    /\ pc = "query"
    /\ \E xml \in SeqsUpTo(platform, MaxBatches) :
          /\ Len(xml) >= 1
          /\ job_batches' = xml
    /\ pc' = "poll"
    /\ calls' = calls \o <<BulkCall("create_query_job", 0, <<>>),
                           BulkCall("query", 0, <<>>)>>
    /\ UNCHANGED <<api_class, result, job_result, closed, polls, batch_ids,
                   results, error>>
    /\ UNCHANGED bvars
    /\ UNCHANGED svars
    /\ UNCHANGED <<rvars, sleeps, loads, gvars>>

\* lines 209, 211: create_query_job raises (no job exists), or bulk.query
\* raises for the job just created; the exception leaves query().
QueryError ==
    /\ api_class = "BulkApiQueryOperation"
    /\ pc = "query"
    /\ \/ calls' = Append(calls, BulkCall("create_query_job", 0, <<>>))
       \/ calls' = calls \o <<BulkCall("create_query_job", 0, <<>>),
                              BulkCall("query", 0, <<>>)>>
    /\ pc' = "error"
    /\ error' = "transport"
    /\ UNCHANGED <<api_class, job_batches, result, job_result, closed, polls,
                   batch_ids, results>>
    /\ UNCHANGED bvars
    /\ UNCHANGED svars
    /\ UNCHANGED <<rvars, sleeps, loads, gvars>>

\* line 214: query() closes the job after the wait and returns
QueryCloseJob ==
    /\ api_class = "BulkApiQueryOperation"
    /\ pc = "close"
    /\ closed' = closed + 1
    /\ calls' = Append(calls, BulkCall("close_job", 0, <<>>))
    /\ pc' = "done"
    /\ UNCHANGED <<api_class, job_batches, result, job_result, polls,
                   batch_ids, results, error>>
    /\ UNCHANGED bvars
    /\ UNCHANGED svars
    /\ UNCHANGED <<rvars, sleeps, loads, gvars>>

\* line 214: close_job raises; the exception leaves query() with job_result
\* stored (line 213) and the job not closed.
QueryCloseJobError ==
    /\ api_class = "BulkApiQueryOperation"
    /\ pc = "close"
    /\ calls' = Append(calls, BulkCall("close_job", 0, <<>>))
    /\ pc' = "error"
    /\ error' = "transport"
    /\ UNCHANGED <<api_class, job_batches, result, job_result, closed, polls,
                   batch_ids, results>>
    /\ UNCHANGED bvars
    /\ UNCHANGED svars
    /\ UNCHANGED <<rvars, sleeps, loads, gvars>>

\* line 278: load_records has raised inside the scope of the operation and
\* nothing in the scope has caught the exception; __exit__ calls end() and
\* the exception leaves the with statement when end() has returned.
ScopeRaised ==
    /\ pc = "error"
    /\ \/ api_class = "BulkApiDmlOperation" /\ error = "UnicodeEncodeError"
       \/ api_class = "RestApiDmlOperation"

\* line 322: end() closes the job and then waits for it.  end() is called
\* by the caller after load_records, or by __exit__ (line 278) however the
\* scope is left.
EndCloseJob ==
    /\ api_class = "BulkApiDmlOperation"
    /\ pc = "end" \/ ScopeRaised
    /\ closed' = closed + 1
    /\ calls' = Append(calls, BulkCall("close_job", 0, <<>>))
    /\ pc' = "poll"
    /\ UNCHANGED <<api_class, job_batches, result, job_result, polls,
                   batch_ids, results, error>>
    /\ UNCHANGED bvars
    /\ UNCHANGED svars
    /\ UNCHANGED <<rvars, sleeps, loads, gvars>>

\* lines 144-150: one iteration of the loop of _wait_for_job.  When the loop
\* breaks, _wait_for_job returns (lines 153-158) and its caller stores the
\* result: end() returns (line 323), after which the exception that made
\* __exit__ call it leaves the with statement (line 278); query() goes on
\* to close the job (lines 213-214).
Poll ==
    /\ pc = "poll"
    /\ polls' = polls + 1
    /\ result' = _parse_job_state(job_batches)
    /\ calls' = Append(calls, BulkCall("job_status", 0, <<>>))
    /\ IF LoopBreaks(result')
       THEN /\ job_result' = result'
            /\ pc' = IF api_class = "BulkApiQueryOperation" THEN "close"
                     ELSE IF error = "none" THEN "done"
                     ELSE "final"
       ELSE /\ pc' = "sleep"
            /\ UNCHANGED job_result
    /\ UNCHANGED <<api_class, job_batches, closed, batch_ids, results, error>>
    /\ UNCHANGED bvars
    /\ UNCHANGED svars
    /\ UNCHANGED <<rvars, sleeps, loads, gvars>>

\* lines 144, 91-92: job_status or the batch status request raises; the
\* exception leaves _wait_for_job and its caller.
PollError ==
    /\ pc = "poll"
    /\ pc' = "error"
    /\ error' = "transport"
    /\ calls' = Append(calls, BulkCall("job_status", 0, <<>>))
    /\ UNCHANGED <<api_class, job_batches, result, job_result, closed, polls,
                   batch_ids, results>>
    /\ UNCHANGED bvars
    /\ UNCHANGED svars
    /\ UNCHANGED <<rvars, sleeps, loads, gvars>>

\* line 152: time.sleep(10), during which the platform works on the batches
Sleep ==
    /\ pc = "sleep"
    /\ polls < MaxPolls
    /\ job_batches' \in LaterBatches(job_batches)
    /\ sleeps' = SleepCount(sleeps)
    /\ pc' = "poll"
    /\ UNCHANGED <<api_class, result, job_result, closed, polls, batch_ids,
                   results, error>>
    /\ UNCHANGED bvars
    /\ UNCHANGED svars
    /\ UNCHANGED <<rvars, calls, loads, gvars>>

\* A bulk DML operation whose job holds any batches, about to call end(), or
\* a bulk query operation about to call query().
InitPoll ==
    /\ BatchIdle
    /\ SelectIdle
    /\ RestIdle
    /\ platform = BatchInfo
    /\ LogIdle
    /\ ResultsIdle
    /\ \/ /\ api_class = "BulkApiDmlOperation"
          /\ pc = "end"
          /\ job_batches \in SeqsUpTo(BatchInfo, MaxBatches)
       \/ /\ api_class = "BulkApiQueryOperation"
          /\ pc = "query"
          /\ job_batches = <<>>
    /\ result = NoResult
    /\ job_result = NoResult
    /\ closed = 0
    /\ polls = 0
    /\ batch_ids = [i \in 1..Len(job_batches) |-> i]
    /\ results = <<>>
    /\ error = "none"

NextPoll ==
    \/ Query
    \/ QueryError
    \/ EndCloseJob
    \/ Poll
    \/ PollError
    \/ Sleep
    \/ QueryCloseJob
    \/ QueryCloseJobError

SpecPoll == InitPoll /\ [][NextPoll]_vars

\* What the platform reports of a batch whose records do not fail.
WaitInfo ==
    {b \in BatchInfo : b.stateMessage = <<>> /\ b.numberRecordsFailed = <<0>>}

\* As InitPoll, with a platform that reports the batch states only.
InitWait ==
    /\ BatchIdle
    /\ SelectIdle
    /\ RestIdle
    /\ platform = WaitInfo
    /\ LogIdle
    /\ ResultsIdle
    /\ \/ /\ api_class = "BulkApiDmlOperation"
          /\ pc = "end"
          /\ job_batches \in SeqsUpTo(platform, MaxBatches)
       \/ /\ api_class = "BulkApiQueryOperation"
          /\ pc = "query"
          /\ job_batches = <<>>
    /\ result = NoResult
    /\ job_result = NoResult
    /\ closed = 0
    /\ polls = 0
    /\ batch_ids = [i \in 1..Len(job_batches) |-> i]
    /\ results = <<>>
    /\ error = "none"

\* The operation is one thread of control: the statement it is at is
\* eventually executed, and time.sleep returns.  A poll it is about to
\* make is made, whether it succeeds (Poll) or fails (PollError).
SpecWait ==
    /\ InitWait
    /\ [][NextPoll]_vars
    /\ WF_vars(Query)
    /\ WF_vars(EndCloseJob)
    /\ WF_vars(Poll)
    /\ WF_vars(Sleep)
    /\ WF_vars(QueryCloseJob)

(***************************************************************************)
(* get_dml_operation and get_query_operation                               *)
(***************************************************************************)
DmlOperationTypes == {"INSERT", "UPDATE", "DELETE", "HARD_DELETE"}

DataApi == {"BULK", "REST", "SMART"}

Volumes == {0, 1, 1999, 2000, 2001, 2500}

SObjects == {"Account", "Contact"}

RecordCounts == {1999, 2000, 2001}

RecordCountEntry == [name : SObjects, count : RecordCounts]

\* Variant of SmartDmlApi whose volume threshold is inclusive.
SmartDmlApi_Inclusive(op, vol) ==
    IF vol >= 2000 \/ op = "HARD_DELETE" THEN "BULK" ELSE "REST"

\* lines 537-541
SmartDmlApi(op, vol) ==
    IF vol > 2000 \/ op = "HARD_DELETE" THEN "BULK" ELSE "REST"

\* lines 536-546
get_dml_operation(op, requested, vol) ==
    LET chosen == IF requested = "SMART" THEN SmartDmlApi(op, vol)
                  ELSE requested
    IN  IF chosen = "BULK" THEN "BulkApiDmlOperation"
        ELSE "RestApiDmlOperation"

\* lines 503-505: the dict comprehension; a later entry replaces an earlier
\* one of the same name.  The dict is a function from its keys.
RECURSIVE SObjectMap(_)
SObjectMap(response) ==
    IF response = <<>> THEN <<>>
    ELSE LET rest == SObjectMap(SubSeq(response, 1, Len(response) - 1))
             last == response[Len(response)]
         IN  [k \in (DOMAIN rest) \cup {last.name} |->
                 IF k = last.name THEN last.count ELSE rest[k]]

\* Variant of SmartQueryApi whose count threshold is exclusive.
SmartQueryApi_Exclusive(object, response) ==
    LET sobject_map == SObjectMap(response)
    IN  IF object \in DOMAIN sobject_map /\ sobject_map[object] > 2000
        THEN "BULK" ELSE "REST"

\* lines 503-510
SmartQueryApi(object, response) ==
    LET sobject_map == SObjectMap(response)
    IN  IF object \in DOMAIN sobject_map /\ sobject_map[object] >= 2000
        THEN "BULK" ELSE "REST"

\* lines 499-523
get_query_operation(object, requested, response) ==
    LET chosen == IF requested = "SMART" THEN SmartQueryApi(object, response)
                  ELSE requested
    IN  IF chosen = "BULK" THEN "BulkApiQueryOperation"
        ELSE "RestApiQueryOperation"

GetDmlOperation ==
    /\ pc = "get_dml"
    /\ api_class' = get_dml_operation(operation, api, volume)
    /\ pc' = "start"
    /\ UNCHANGED <<job_batches, result, job_result, closed, polls, batch_ids,
                   results, error>>
    /\ UNCHANGED bvars
    /\ UNCHANGED svars
    /\ UNCHANGED <<rvars, lvars, gvars>>

\* The record count is requested (lines 500-502) only for DataApi.SMART.
GetQueryOperation ==
    /\ pc = "get_query"
    /\ api_class' = get_query_operation(sobject, api, record_count_response)
    /\ count_fetches' = IF api = "SMART" THEN count_fetches + 1
                        ELSE count_fetches
    /\ pc' = "query"
    /\ UNCHANGED <<job_batches, result, job_result, closed, polls, batch_ids,
                   results, error>>
    /\ UNCHANGED bvars
    /\ UNCHANGED <<operation, volume, api, sobject, record_count_response>>
    /\ UNCHANGED <<rvars, lvars, gvars>>

(***************************************************************************)
(* The lifecycle of a DML operation: start, load_records, end.             *)
(***************************************************************************)
\* line 332: the defaults of _batch, used by load_records
DefaultN == 10000
DefaultCharLimit == 10000000
\* line 447: api_options.get("batch_size", 200)
DefaultBatchSize == 200

RECURSIVE BatchLoop(_, _, _, _, _)
BatchLoop(st, recs, header, size, limit) ==
    IF recs = <<>> THEN BatchLeftover(st)
    ELSE IF _serialize_csv_record(<<>>, Head(recs)) = UnicodeEncodeError
    THEN st.out
    ELSE BatchLoop(BatchIteration(st, Head(recs), header, size, limit),
                   Tail(recs), header, size, limit)

\* lines 332-366: all the batches the generator yields when the shared
\* buffer holds buff, up to the record (or header) whose serialization
\* raises, if there is one
_batch(buff, recs, flds, size, limit) ==
    LET header == _serialize_csv_record(buff, flds)
    IN  IF header = UnicodeEncodeError THEN <<>>
        ELSE BatchLoop([batch |-> <<header>>, current_chars |-> Len(header),
                        out |-> <<>>],
                       recs, header, size, limit)

\* lines 340 and 347: the generator raises out of _serialize_csv_record
BatchRaises(buff, recs, flds) ==
    \/ _serialize_csv_record(buff, flds) = UnicodeEncodeError
    \/ \E i \in 1..Len(recs) :
          _serialize_csv_record(<<>>, recs[i]) = UnicodeEncodeError

\* lines 369-375: the content of the shared buffer when the generator has
\* ended or raised
BatchBuffer(buff, recs, flds) ==
    LET bad == {i \in 1..Len(recs) :
                   _serialize_csv_record(<<>>, recs[i]) = UnicodeEncodeError}
    IN  IF _serialize_csv_record(buff, flds) = UnicodeEncodeError
        THEN BufferAfter(buff, flds)
        ELSE IF bad = {} THEN <<>>
        ELSE BufferAfter(<<>>, recs[CHOOSE i \in bad : \A j \in bad : i <= j])

\* lines 21-27
RECURSIVE get_batch_iterator(_, _)
get_batch_iterator(iterator, size) ==
    IF iterator = <<>> THEN <<>>
    ELSE IF Len(iterator) <= size THEN <<iterator>>
    ELSE <<SubSeq(iterator, 1, size)>>
         \o get_batch_iterator(SubSeq(iterator, size + 1, Len(iterator)), size)

\* line 425: the keys of dict(zip(self.fields, rec))
ZipKeys(flds, rec) ==
    {flds[i] : i \in 1..(IF Len(flds) < Len(rec) THEN Len(flds) ELSE Len(rec))}

FieldId == <<73, 100>>

\* lines 440-444: the keys of the method dict
RestMethods == {"INSERT", "UPDATE", "DELETE"}

\* lines 313-319 (bulk: create_job) and lines 280-282 (REST: no-op)
Start ==
    /\ pc = "start"
    /\ pc' = "load"
    /\ calls' = IF api_class = "BulkApiDmlOperation"
                THEN Append(calls, BulkCall("create_job", 0, <<>>))
                ELSE calls
    /\ UNCHANGED <<api_class, job_batches, result, job_result, closed, polls,
                   batch_ids, results, error>>
    /\ UNCHANGED bvars
    /\ UNCHANGED svars
    /\ UNCHANGED <<rvars, sleeps, loads, gvars>>

\* lines 328-330 with the batches posted last first
PostedCalls_Reversed(batches, first) ==
    [i \in 1..Len(batches) |->
        BulkCall("post_batch", first + i, batches[Len(batches) + 1 - i])]

\* lines 328-330: one post_batch per batch, in the order _batch yields them
PostedCalls(batches, first) ==
    [i \in 1..Len(batches) |-> BulkCall("post_batch", first + i, batches[i])]

\* lines 325-330: every batch of _batch(records) is posted; the platform
\* queues it and returns its identifier (its position in the job).  When
\* the generator raises, the batches it had yielded have been posted and
\* load_records raises.
BulkLoadRecords ==
    /\ api_class = "BulkApiDmlOperation"
    /\ pc = "load"
    /\ LET batches == _batch(csv_buff, records, fields, n, char_limit)
       IN  /\ \E posted \in [1..Len(batches) ->
                              {b \in platform : b.state = "Queued"}] :
                  job_batches' = job_batches \o posted
           /\ batch_ids' = [i \in 1..Len(batches) |-> Len(job_batches) + i]
           /\ calls' = calls \o PostedCalls(batches, Len(job_batches))
    /\ IF BatchRaises(csv_buff, records, fields)
       THEN pc' = "error" /\ error' = "UnicodeEncodeError"
       ELSE pc' = "end" /\ error' = error
    /\ csv_buff' = BatchBuffer(csv_buff, records, fields)
    /\ loads' = loads + 1
    /\ UNCHANGED <<api_class, result, job_result, closed, polls, results>>
    /\ UNCHANGED <<records, fields, n, char_limit, pos, batch, current_chars,
                   yielded, bpc>>
    /\ UNCHANGED svars
    /\ UNCHANGED <<rvars, sleeps, gvars>>

\* Python values: a str is the sequence of its code points; None, True and
\* False are tuples no str equals.
PyNone == <<-1>>

PyTrue == <<-2>>

PyFalse == <<-3>>

\* line 427: bool(v) is False for None, "" and False, and True for every
\* other value (every non-empty str included)
PyBool(v) == IF v \in {PyNone, <<>>, PyFalse} THEN PyFalse ELSE PyTrue

\* line 425: dict(zip(self.fields, rec)); the last value of a key wins
Zip(flds, rec) ==
    LET len == IF Len(flds) < Len(rec) THEN Len(flds) ELSE Len(rec)
    IN  [k \in ZipKeys(flds, rec) |->
            rec[CHOOSE i \in 1..len :
                    /\ flds[i] = k
                    /\ \A j \in 1..len : flds[j] = k => j <= i]]

FieldN == <<78>>

FieldB == <<66>>

\* What stands for the KeyError a dict raises for a key it does not hold:
\* a value no dict equals (no str holds the code point -5).
KeyError(key) == [k \in {<<-5>>} |-> key]

IsKeyError(v) == DOMAIN v = {<<-5>>}

\* lines 426-427: the record after the Boolean conversion.  The loop runs
\* over boolean_fields and reads r[boolean_field]: the first Boolean field
\* that is not a key of r raises KeyError.
Coerce(r, bools) ==
    LET missing == {i \in 1..Len(bools) : bools[i] \notin DOMAIN r}
    IN  IF missing # {}
        THEN KeyError(bools[CHOOSE i \in missing : \A j \in missing : i <= j])
        ELSE [k \in DOMAIN r |->
                 IF \E i \in 1..Len(bools) : bools[i] = k
                 THEN PyBool(r[k]) ELSE r[k]]

\* lines 424-437: the record submitted for rec, or the KeyError of line 427
_convert(rec, op, flds, bools, sobj) ==
    LET r == Coerce(Zip(flds, rec), bools)
        kept == IF op = "INSERT"
                THEN {k \in DOMAIN r : r[k] # PyNone /\ r[k] # <<>>}
                ELSE DOMAIN r
    IN  IF IsKeyError(r) THEN r
        ELSE [fields |-> [k \in kept |-> r[k]],
              attributes |-> [type |-> sobj]]

\* line 427 raises for rec
ConvertRaises(rec, flds, bools) == IsKeyError(Coerce(Zip(flds, rec), bools))

\* lines 440-444: the method dict
RestMethod(op) ==
    CASE op = "INSERT" -> "POST"
      [] op = "UPDATE" -> "PATCH"
      [] op = "DELETE" -> "DELETE"

\* lines 450 and 454: what building the request of the chunk raises.  Every
\* record is converted before the Ids are joined, so a KeyError (line 427,
\* or a record without Id key on line 450) comes before the TypeError that
\* str.join raises for an Id that is not a str.
ChunkError(chunk, op, flds, bools, sobj) ==
    IF \E j \in 1..Len(chunk) : ConvertRaises(chunk[j], flds, bools)
    THEN "KeyError"
    ELSE IF op # "DELETE" THEN "none"
    ELSE IF \E j \in 1..Len(chunk) :
                FieldId \notin
                    DOMAIN _convert(chunk[j], op, flds, bools, sobj).fields
    THEN "KeyError"
    ELSE IF \E j \in 1..Len(chunk) :
                _convert(chunk[j], op, flds, bools, sobj).fields[FieldId]
                    \in {PyNone, PyTrue, PyFalse}
    THEN "TypeError"
    ELSE "none"

ChunkRaises(chunk, op, flds, bools, sobj) ==
    ChunkError(chunk, op, flds, bools, sobj) # "none"

\* lines 449-460: the composite call made for one chunk
RestCall(chunk, op, flds, bools, sobj) ==
    IF op = "DELETE"
    THEN Call("restful",
              [method |-> RestMethod(op),
               ids |-> [j \in 1..Len(chunk) |->
                           _convert(chunk[j], op, flds, bools, sobj)
                               .fields[FieldId]],
               body |-> "None",
               records |-> <<>>])
    ELSE Call("restful",
              [method |-> RestMethod(op),
               ids |-> <<>>,
               body |-> "json",
               records |-> [j \in 1..Len(chunk) |->
                               _convert(chunk[j], op, flds, bools, sobj)]])

\* lines 446-448 with the batch_size option ignored
RestChunks_FixedSize(recs, size) == get_batch_iterator(recs, DefaultBatchSize)

\* lines 446-448: the chunks of the records, of the configured size
RestChunks(recs, size) == get_batch_iterator(recs, size)

\* The platform's result for the i-th submitted record of the operation.
StatusCode == <<69>>

Message == <<109>>

RestAnswer(i, ok) ==
    IF ok
    THEN [id |-> <<48 + i>>, success |-> TRUE, errors |-> <<>>]
    ELSE [id |-> PyNone, success |-> FALSE,
          errors |-> <<[statusCode |-> StatusCode, message |-> Message,
                        fields |-> <<FieldId>>]>>]

\* lines 462-470 with the row errors left out of the status
RestJobResult_AlwaysSuccess(res) ==
    LET row_errors == Cardinality({i \in 1..Len(res) : ~res[i].success})
    IN  DataOperationJobResult("SUCCESS", <<>>, Len(res), row_errors)

\* lines 462-470
RestJobResult(res) ==
    LET row_errors == Cardinality({i \in 1..Len(res) : ~res[i].success})
    IN  DataOperationJobResult(
            IF row_errors = 0 THEN "SUCCESS" ELSE "ROW_FAILURE",
            <<>>, Len(res), row_errors)

\* lines 439-470.  self.results is reset (line 439); the method lookup
\* (lines 440-444) raises KeyError for an operation that is not a key; the
\* chunks are submitted one after the other until building a request raises
\* (lines 450, 454) or the call itself does (line 457: `failed` is the chunk
\* whose call raises, 0 if none does).  The platform answers each chunk with
\* one result per record, in order.
RestLoadRecords ==
    /\ api_class = "RestApiDmlOperation"
    /\ pc = "load"
    /\ IF operation \notin RestMethods
       THEN /\ error' = "KeyError"
            /\ pc' = "error"
            /\ results' = <<>>
            /\ UNCHANGED <<job_result, calls>>
       ELSE LET size == batch_size
                index == RestChunks([i \in 1..Len(records) |-> i], size)
                chunks == RestChunks(records, size)
                raising == {c \in 1..Len(chunks) :
                               ChunkRaises(chunks[c], operation, fields,
                                           boolean_fields, sobject)}
                built == IF raising = {} THEN Len(chunks)
                         ELSE (CHOOSE c \in raising :
                                  \A d \in raising : c <= d) - 1
            IN  \E failed \in 0..built :
                LET called == IF failed = 0 THEN built ELSE failed
                    answered == IF failed = 0 THEN built ELSE failed - 1
                    returns == failed = 0 /\ raising = {}
                IN  /\ calls' = calls \o
                           [c \in 1..called |->
                               RestCall(chunks[c], operation, fields,
                                        boolean_fields, sobject)]
                    /\ pc' = IF returns THEN "end" ELSE "error"
                    /\ error' = IF failed # 0 THEN "transport"
                                ELSE IF raising = {} THEN error
                                ELSE ChunkError(chunks[built + 1], operation,
                                                fields, boolean_fields,
                                                sobject)
                    /\ \E success \in
                              [UNION {{index[c][j] : j \in 1..Len(index[c])} :
                                         c \in 1..answered} -> BOOLEAN] :
                          /\ results' = Concat(
                                 [c \in 1..answered |->
                                     [j \in 1..Len(index[c]) |->
                                         RestAnswer(index[c][j],
                                                    success[index[c][j]])]])
                          /\ job_result' = IF returns
                                           THEN RestJobResult(results')
                                           ELSE job_result
    /\ loads' = loads + 1
    /\ UNCHANGED <<api_class, job_batches, result, closed, polls, batch_ids>>
    /\ UNCHANGED bvars
    /\ UNCHANGED svars
    /\ UNCHANGED <<rvars, sleeps, gvars>>

\* lines 289-291: end() of a REST operation is a no-op, whether the caller
\* or __exit__ (line 278) calls it
RestEnd ==
    /\ api_class = "RestApiDmlOperation"
    /\ pc = "end" \/ ScopeRaised
    /\ pc' = IF error = "none" THEN "done" ELSE "final"
    /\ UNCHANGED <<api_class, job_batches, result, job_result, closed, polls,
                   batch_ids, results, error>>
    /\ UNCHANGED bvars
    /\ UNCHANGED svars
    /\ UNCHANGED <<rvars, lvars, gvars>>

\* str.join: the strings of seqs separated by sep
RECURSIVE Join(_, _)
Join(seqs, sep) ==
    IF seqs = <<>> THEN <<>>
    ELSE IF Len(seqs) = 1 THEN seqs[1]
    ELSE seqs[1] \o sep \o Join(Tail(seqs), sep)

DataOperationResult(id, success, err) ==
    [id |-> id, success |-> success, error |-> err]

\* lines 475-485: "{statusCode}: {message} ({fields})" for every error, one
\* per line, or "" when the result has no error
RestResult(res) ==
    LET line(e) == e.statusCode \o <<58, 32>> \o e.message \o <<32, 40>>
                   \o Join(e.fields, <<COMMA>>) \o <<41>>
        errors == IF res.errors # <<>>
                  THEN Join([i \in 1..Len(res.errors) |-> line(res.errors[i])],
                            <<LF>>)
                  ELSE <<>>
    IN  DataOperationResult(res.id, res.success, errors)

\* line 487: the generator yields the conversion of the next stored result,
\* or finishes after the last one
RestGetResults ==
    /\ api_class = "RestApiDmlOperation"
    /\ pc = "done"
    /\ gpc \in {"idle", "streaming"}
    /\ IF grow < Len(results)
       THEN /\ out' = Append(out, RestResult(results[grow + 1]))
            /\ grow' = grow + 1
            /\ gpc' = "streaming"
       ELSE /\ gpc' = "finished"
            /\ UNCHANGED <<out, grow>>
    /\ UNCHANGED <<result_files, gidx, temp_exists, gerror, downloads>>
    /\ UNCHANGED jvars
    /\ UNCHANGED bvars
    /\ UNCHANGED svars
    /\ UNCHANGED <<rvars, lvars>>

(***************************************************************************)
(* RestApiQueryOperation: query() and get_results().                       *)
(***************************************************************************)
\* A Python int among the values of a record.
PyInt(i) == <<-6, i>>

\* str() of a natural number: its decimal digits
RECURSIVE Digits(_)
Digits(i) ==
    IF i < 10 THEN <<48 + i>> ELSE Digits(i \div 10) \o <<48 + (i % 10)>>

\* line 256: str(v) of a value that is not None
PyStr(v) ==
    IF v = PyTrue THEN <<84, 114, 117, 101>>
    ELSE IF v = PyFalse THEN <<70, 97, 108, 115, 101>>
    ELSE IF Len(v) = 2 /\ v[1] = -6
    THEN (IF v[2] < 0 THEN <<45>> \o Digits(0 - v[2]) ELSE Digits(v[2]))
    ELSE v

\* line 256: rec[f] raises KeyError for a field the record does not hold
QueryConvertRaises(rec, flds) ==
    \E i \in 1..Len(flds) : flds[i] \notin DOMAIN rec

\* lines 255-256: the row of the record, None kept and every other value
\* turned into its str, in the order of self.fields
QueryConvert(rec, flds) ==
    IF QueryConvertRaises(rec, flds)
    THEN KeyError(flds[CHOOSE i \in 1..Len(flds) :
                           /\ flds[i] \notin DOMAIN rec
                           /\ \A j \in 1..(i - 1) : flds[j] \in DOMAIN rec])
    ELSE [i \in 1..Len(flds) |->
             IF rec[flds[i]] = PyNone THEN PyNone ELSE PyStr(rec[flds[i]])]

\* The records the platform may answer a query with: Id and N with N null
\* or a number, and a record without N.
QueryRecordPool ==
    { [k \in {FieldId, FieldN} |-> IF k = FieldId THEN <<49>> ELSE PyNone],
      [k \in {FieldId, FieldN} |-> IF k = FieldId THEN <<50>> ELSE PyInt(15)],
      [k \in {FieldId} |-> <<51>>] }

\* lines 249-252: query_all answers with all the records of the query and
\* their number; the job result is SUCCESS with that number.
RestQuery ==
    /\ api_class = "RestApiQueryOperation"
    /\ pc = "query"
    /\ \E recs \in SeqsUpTo(QueryRecordPool, MaxQueryRecs) :
          query_response' = [totalSize |-> Len(recs), records |-> recs]
    /\ job_result' = DataOperationJobResult("SUCCESS", <<>>,
                                            query_response'.totalSize, 0)
    /\ calls' = Append(calls, BulkCall("query_all", 0, <<>>))
    /\ pc' = "done"
    /\ UNCHANGED <<api_class, job_batches, result, closed, polls, batch_ids,
                   results, error>>
    /\ UNCHANGED bvars
    /\ UNCHANGED svars
    /\ UNCHANGED <<batch_size, boolean_fields, platform, sleeps, loads, gvars>>

\* line 249: query_all raises; the exception leaves query()
RestQueryError ==
    /\ api_class = "RestApiQueryOperation"
    /\ pc = "query"
    /\ calls' = Append(calls, BulkCall("query_all", 0, <<>>))
    /\ pc' = "error"
    /\ error' = "transport"
    /\ UNCHANGED <<api_class, job_batches, result, job_result, closed, polls,
                   batch_ids, results>>
    /\ UNCHANGED bvars
    /\ UNCHANGED svars
    /\ UNCHANGED <<rvars, sleeps, loads, gvars>>

\* lines 254-258: the generator yields the row of the next record of the
\* response, raises the KeyError of convert, or finishes after the last one
RestQueryGetResults ==
    /\ api_class = "RestApiQueryOperation"
    /\ pc = "done"
    /\ gpc \in {"idle", "streaming"}
    /\ IF grow < Len(query_response.records)
       THEN IF QueryConvertRaises(query_response.records[grow + 1], fields)
            THEN /\ gpc' = "raised"
                 /\ gerror' = [type |-> "KeyError", batch |-> 0]
                 /\ UNCHANGED <<out, grow>>
            ELSE /\ out' = Append(out,
                               QueryConvert(query_response.records[grow + 1],
                                            fields))
                 /\ grow' = grow + 1
                 /\ gpc' = "streaming"
                 /\ UNCHANGED gerror
       ELSE /\ gpc' = "finished"
            /\ UNCHANGED <<out, grow, gerror>>
    /\ UNCHANGED <<result_files, gidx, temp_exists, downloads>>
    /\ UNCHANGED jvars
    /\ UNCHANGED bvars
    /\ UNCHANGED svars
    /\ UNCHANGED <<rvars, lvars>>

\* The records handed to a REST operation: two values each, the second
\* one a str, None or "", and a record that is one value short.
ShortRecord == <<<<100>>>>

RestRecordPool ==
    {<<<<97>>, <<116>>>>, <<<<98>>, PyNone>>, <<<<99>>, <<>>>>, ShortRecord}

\* The record lists of at most k records, at most one of them short.
RestRecords(k) ==
    {recs \in SeqsUpTo(RestRecordPool, k) :
        \A i, j \in 1..Len(recs) :
            (recs[i] = ShortRecord /\ recs[j] = ShortRecord) => i = j}

\* A RestApiDmlOperation was constructed (lines 407-421) for the fields
\* Id and B or N and B; describe() reports B as a boolean field or not.
InitRest ==
    /\ records \in RestRecords(MaxRestRecs)
    /\ fields \in {<<FieldId, FieldB>>, <<FieldN, FieldB>>}
    /\ n = 0
    /\ char_limit = 0
    /\ pos = 0
    /\ batch = <<>>
    /\ current_chars = 0
    /\ csv_buff = <<>>
    /\ yielded = <<>>
    /\ bpc = "idle"
    /\ api_class = "RestApiDmlOperation"
    /\ pc = "start"
    /\ job_batches = <<>>
    /\ result = NoResult
    /\ job_result = NoResult
    /\ closed = 0
    /\ polls = 0
    /\ batch_ids = <<>>
    /\ results = <<>>
    /\ error = "none"
    /\ operation \in DmlOperationTypes
    /\ volume = 0
    /\ api = "REST"
    /\ sobject = "Account"
    /\ record_count_response = <<>>
    /\ count_fetches = 0
    /\ batch_size \in 1..MaxChunk
    /\ boolean_fields \in {<<>>, <<FieldB>>}
    /\ query_response = NoResponse
    /\ platform = {}
    /\ LogIdle
    /\ ResultsIdle

NextRest ==
    \/ Start
    \/ RestLoadRecords
    \/ RestEnd
    \/ RestGetResults

SpecRest == InitRest /\ [][NextRest]_vars

\* A caller about to select a DML operation for some records, or a query
\* operation for some object.
\* What the platform reports of the batch of a query: queued, then
\* completed.
QueryInfo == {b \in WaitInfo : b.state \in {"Queued", "Completed"}}

\* The records loaded after a selection: one that can be encoded and one
\* that cannot.
SelectRecordPool == {<< <<97>> >>, << <<55296>> >>}

InitSelect ==
    /\ fields \in FieldsPool
    /\ n = DefaultN
    /\ char_limit = DefaultCharLimit
    /\ pos = 0
    /\ batch = <<>>
    /\ current_chars = 0
    /\ csv_buff = <<>>
    /\ yielded = <<>>
    /\ bpc = "idle"
    /\ api_class = "none"
    /\ job_batches = <<>>
    /\ result = NoResult
    /\ job_result = NoResult
    /\ closed = 0
    /\ polls = 0
    /\ batch_ids = <<>>
    /\ results = <<>>
    /\ error = "none"
    /\ api \in DataApi
    /\ sobject \in SObjects
    /\ count_fetches = 0
    /\ batch_size = DefaultBatchSize
    /\ boolean_fields = <<>>
    /\ query_response = NoResponse
    /\ LogIdle
    /\ ResultsIdle
    /\ \/ /\ pc = "get_dml"
          /\ records \in SeqsUpTo(SelectRecordPool, MaxLoad)
          /\ operation \in DmlOperationTypes
          /\ volume \in Volumes
          /\ record_count_response = <<>>
          /\ platform = BatchInfo
       \/ /\ pc = "get_query"
          /\ platform = QueryInfo
          /\ records = <<>>
          /\ operation = "QUERY"
          /\ volume = 0
          /\ record_count_response \in SeqsUpTo(RecordCountEntry, MaxEntries)

NextSelect ==
    \/ GetDmlOperation
    \/ GetQueryOperation
    \/ Start
    \/ BulkLoadRecords
    \/ RestLoadRecords
    \/ RestEnd
    \/ EndCloseJob
    \/ Poll
    \/ PollError
    \/ Sleep
    \/ Query
    \/ QueryError
    \/ QueryCloseJob
    \/ QueryCloseJobError
    \/ RestQuery
    \/ RestQueryError
    \/ RestQueryGetResults

SpecSelect == InitSelect /\ [][NextSelect]_vars

(***************************************************************************)
(* download_file and the get_results generators of the Bulk API            *)
(* operations.                                                             *)
(***************************************************************************)
StrTrue == <<116, 114, 117, 101>>

StrFalse == <<102, 97, 108, 115, 101>>

\* line 394: the success flag is a boolean-like string
process_bool_arg(v) == v = StrTrue

\* The rows of a DML result set: Id, Success, Created, Error.
DmlRowPool ==
    {<<<<49>>, StrTrue, StrTrue, <<>>>>,
     <<<<>>, StrFalse, StrFalse, <<101>>>>}

\* The rows of a query result set.
QueryRowPool == {<<<<97>>>>, <<<<98>>>>}

\* A result set as the platform serves it: the fetch fails, or it delivers
\* a file that is empty, or holds the no-records sentinel, or holds a header
\* row and data rows, after which the file ends or cannot be parsed.
ResultFile(fetch, header, rows, corrupt) ==
    [fetch |-> fetch, header |-> header, rows |-> rows, corrupt |-> corrupt]

ResultFiles(pool) ==
    {ResultFile("error", "none", <<>>, FALSE),
     ResultFile("ok", "missing", <<>>, FALSE)}
    \cup {ResultFile("ok", "header", rows, corrupt) :
              rows \in SeqsUpTo(pool, MaxRows), corrupt \in BOOLEAN}

Sentinel == ResultFile("ok", "sentinel", <<>>, FALSE)

\* lines 395-399 with the identifier taken whatever the success flag
DmlResult_IdAlways(row) ==
    LET success == process_bool_arg(row[2])
    IN  DataOperationResult(row[1], success,
                            IF ~success THEN row[4] ELSE PyNone)

\* lines 394-399: the identifier is used only if success is true, the error
\* message only if it is false
DmlResult(row) ==
    LET success == process_bool_arg(row[2])
    IN  DataOperationResult(IF success THEN row[1] ELSE PyNone, success,
                            IF ~success THEN row[4] ELSE PyNone)

\* lines 78-79 with the unlink made on the normal exit only
TempAfterExit_NormalOnly(how) == how # "normal"

\* lines 78-79: finally unlinks the file however the scope is left; the
\* value is whether the temporary file still exists
TempAfterExit(how) == FALSE

\* lines 400-403: BulkApiDmlOperation.get_results wraps every Exception
\* into a BulkDataException naming batch_id; lines 226-232:
\* BulkApiQueryOperation.get_results has no handler, the exception leaves
\* the generator as it is
GetResultsError(cause, id) ==
    IF api_class = "BulkApiDmlOperation"
    THEN [type |-> "BulkDataException", batch |-> id]
    ELSE [type |-> cause, batch |-> 0]

BulkClasses == {"BulkApiDmlOperation", "BulkApiQueryOperation"}

\* The batch (DML) or result set (query) get_results is at.
CurrentId ==
    IF api_class = "BulkApiDmlOperation" THEN batch_ids[gidx + 1]
    ELSE gidx + 1

\* The loop takes the next batch (line 380) or result id (line 223) and
\* enters download_file (lines 67-77): the temporary file is created and
\* the result set fetched; a failed fetch (lines 69-70) leaves through
\* finally.  The consumer reads the header row (lines 228, 390): next()
\* on an empty file raises StopIteration, which is a RuntimeError when it
\* leaves a generator; the query consumer returns on the sentinel
\* (lines 229-230).
GetResultsOpen ==
    /\ api_class \in BulkClasses
    /\ pc = "done"
    /\ gpc \in {"idle", "between"}
    /\ gidx < Len(result_files)
    /\ downloads' = Append(downloads, CurrentId)
    /\ calls' = Append(calls, BulkCall("download", CurrentId, <<>>))
    /\ grow' = 0
    /\ LET file == result_files[gidx + 1]
       IN  IF file.fetch = "error"
           THEN /\ gpc' = "raised"
                /\ gerror' = GetResultsError("HTTPError", CurrentId)
                /\ temp_exists' = TempAfterExit("fetch")
           ELSE IF file.header = "missing"
           THEN /\ gpc' = "raised"
                /\ gerror' = GetResultsError("RuntimeError", CurrentId)
                /\ temp_exists' = TempAfterExit("parse")
           ELSE IF /\ api_class = "BulkApiQueryOperation"
                   /\ file.header = "sentinel"
           THEN /\ gpc' = "finished"
                /\ temp_exists' = TempAfterExit("return")
                /\ UNCHANGED gerror
           ELSE /\ gpc' = "streaming"
                /\ temp_exists' = TRUE
                /\ UNCHANGED gerror
    /\ UNCHANGED <<result_files, gidx, out>>
    /\ UNCHANGED jvars
    /\ UNCHANGED bvars
    /\ UNCHANGED svars
    /\ UNCHANGED <<rvars, sleeps, loads>>

\* The consumer asks for the next row (lines 232, 393-399): it is yielded,
\* or the reader raises, or the file is exhausted and the scope is left.
GetResultsRow ==
    /\ api_class \in BulkClasses
    /\ gpc = "streaming"
    /\ LET file == result_files[gidx + 1]
       IN  IF grow < Len(file.rows)
           THEN /\ out' = Append(out,
                       IF api_class = "BulkApiDmlOperation"
                       THEN DmlResult(file.rows[grow + 1])
                       ELSE file.rows[grow + 1])
                /\ grow' = grow + 1
                /\ UNCHANGED <<gpc, gidx, temp_exists, gerror>>
           ELSE IF file.corrupt
           THEN /\ gpc' = "raised"
                /\ gerror' = GetResultsError("csv.Error", CurrentId)
                /\ temp_exists' = TempAfterExit("parse")
                /\ UNCHANGED <<out, grow, gidx>>
           ELSE /\ gpc' = "between"
                /\ gidx' = gidx + 1
                /\ grow' = 0
                /\ temp_exists' = TempAfterExit("normal")
                /\ UNCHANGED <<out, gerror>>
    /\ UNCHANGED <<result_files, downloads>>
    /\ UNCHANGED jvars
    /\ UNCHANGED bvars
    /\ UNCHANGED svars
    /\ UNCHANGED <<rvars, lvars>>

\* The loop has no batch or result id left: the generator is exhausted.
GetResultsFinish ==
    /\ api_class \in BulkClasses
    /\ pc = "done"
    /\ gpc \in {"idle", "between"}
    /\ gidx = Len(result_files)
    /\ gpc' = "finished"
    /\ UNCHANGED <<result_files, gidx, grow, temp_exists, out, gerror,
                   downloads>>
    /\ UNCHANGED jvars
    /\ UNCHANGED bvars
    /\ UNCHANGED svars
    /\ UNCHANGED <<rvars, lvars>>

\* The consumer fails on a row it was handed: the generator stays suspended
\* at its yield, inside the download_file scope.
ConsumerError ==
    /\ api_class \in BulkClasses
    /\ gpc = "streaming"
    /\ grow >= 1
    /\ gpc' = "suspended"
    /\ UNCHANGED <<result_files, gidx, grow, temp_exists, out, gerror,
                   downloads>>
    /\ UNCHANGED jvars
    /\ UNCHANGED bvars
    /\ UNCHANGED svars
    /\ UNCHANGED <<rvars, lvars>>

\* The abandoned generator is closed: GeneratorExit is raised at the yield,
\* is not an Exception (line 400) and leaves the scope through finally.
GeneratorClose ==
    /\ api_class \in BulkClasses
    /\ gpc = "suspended"
    /\ gpc' = "closed"
    /\ temp_exists' = TempAfterExit("close")
    /\ UNCHANGED <<result_files, gidx, grow, out, gerror, downloads>>
    /\ UNCHANGED jvars
    /\ UNCHANGED bvars
    /\ UNCHANGED svars
    /\ UNCHANGED <<rvars, lvars>>

\* What the platform reports of a batch that was processed.
CompletedInfo ==
    [state |-> "Completed", stateMessage |-> <<>>,
     numberRecordsFailed |-> <<0>>, numberRecordsProcessed |-> <<2>>]

\* A Bulk API job has finished (end() or query() has returned) and the
\* platform holds its result sets: one per batch of a DML job, any number
\* for the batch of a query job.
InitResults ==
    /\ BatchIdle
    /\ RestIdle
    /\ LogIdle
    /\ platform = {CompletedInfo}
    /\ pc = "done"
    /\ \/ /\ api_class = "BulkApiDmlOperation"
          /\ operation = "INSERT"
          /\ result_files \in SeqsUpTo(ResultFiles(DmlRowPool), MaxResultSets)
          /\ job_batches = [i \in 1..Len(result_files) |-> CompletedInfo]
          /\ batch_ids = [i \in 1..Len(result_files) |-> i]
       \/ /\ api_class = "BulkApiQueryOperation"
          /\ operation = "QUERY"
          /\ result_files \in
                SeqsUpTo(ResultFiles(QueryRowPool) \cup {Sentinel},
                         MaxResultSets)
          /\ job_batches = <<CompletedInfo>>
          /\ batch_ids = <<>>
    /\ result = _parse_job_state(job_batches)
    /\ job_result = result
    /\ closed = 1
    /\ polls = 1
    /\ results = <<>>
    /\ error = "none"
    /\ volume = 0
    /\ api = "BULK"
    /\ sobject = "Account"
    /\ record_count_response = <<>>
    /\ count_fetches = 0
    /\ gpc = "idle"
    /\ gidx = 0
    /\ grow = 0
    /\ temp_exists = FALSE
    /\ out = <<>>
    /\ gerror = NoError
    /\ downloads = <<>>

NextResults ==
    \/ GetResultsOpen
    \/ GetResultsRow
    \/ GetResultsFinish
    \/ ConsumerError
    \/ GeneratorClose

SpecResults == InitResults /\ [][NextResults]_vars

(***************************************************************************)
(* The lifecycle of a Bulk API DML operation: start, load_records, end,    *)
(* get_results.                                                            *)
(***************************************************************************)
\* What the platform reports of a batch of the job while it goes through
\* its states without a failure.
LifeInfo ==
    {b \in BatchInfo :
        /\ b.state \in {"Queued", "InProgress", "Completed"}
        /\ b.stateMessage = <<>>
        /\ b.numberRecordsFailed = <<0>>}

\* The result set of a batch whose one record was processed.
LifeFile == ResultFile("ok", "header", <<<<<<49>>, StrTrue, StrTrue, <<>>>>>>, FALSE)

\* A BulkApiDmlOperation was constructed (lines 299-311) for some records.
\* n and char_limit are the parameters of _batch, which load_records leaves
\* at their defaults; here the record limit is scaled down so that a few
\* records make several batches.  The platform will hold one result set
\* per posted batch.
InitLife ==
    /\ records \in SeqsUpTo(RecordPool, MaxLifeRecs)
    /\ fields \in FieldsPool
    /\ n \in 1..MaxN
    /\ char_limit = DefaultCharLimit
    /\ pos = 0
    /\ batch = <<>>
    /\ current_chars = 0
    /\ csv_buff = <<>>
    /\ yielded = <<>>
    /\ bpc = "idle"
    /\ api_class = "BulkApiDmlOperation"
    /\ pc = "start"
    /\ job_batches = <<>>
    /\ result = NoResult
    /\ job_result = NoResult
    /\ closed = 0
    /\ polls = 0
    /\ batch_ids = <<>>
    /\ results = <<>>
    /\ error = "none"
    /\ operation \in DmlOperationTypes
    /\ volume = 0
    /\ api = "BULK"
    /\ sobject = "Account"
    /\ record_count_response = <<>>
    /\ count_fetches = 0
    /\ RestIdle
    /\ platform = LifeInfo
    /\ LogIdle
    /\ result_files = [i \in 1..Len(_batch(<<>>, records, fields, n,
                                             char_limit)) |->
                          LifeFile]
    /\ gpc = "idle"
    /\ gidx = 0
    /\ grow = 0
    /\ temp_exists = FALSE
    /\ out = <<>>
    /\ gerror = NoError
    /\ downloads = <<>>

NextLife ==
    \/ Start
    \/ BulkLoadRecords
    \/ EndCloseJob
    \/ Poll
    \/ PollError
    \/ Sleep
    \/ GetResultsOpen
    \/ GetResultsRow
    \/ GetResultsFinish
    \/ ConsumerError
    \/ GeneratorClose

SpecLife == InitLife /\ [][NextLife]_vars

(***************************************************************************)
(* Several load_records calls on one DML operation.                        *)
(***************************************************************************)
\* load_records has returned, or has raised on a record that cannot be
\* encoded and the caller has caught the exception; the caller, still
\* inside the scope of the operation, calls it again with further records.
LoadMore ==
    /\ api_class \in {"BulkApiDmlOperation", "RestApiDmlOperation"}
    /\ pc = "end" \/ (pc = "error" /\ error = "UnicodeEncodeError")
    /\ loads < MaxLoads
    /\ records' \in IF api_class = "BulkApiDmlOperation"
                    THEN SeqsUpTo(RecordPool, MaxReloadRecs)
                    ELSE SeqsUpTo(RestRecordPool, MaxReloadRecs)
    /\ pc' = "load"
    /\ error' = "none"
    /\ UNCHANGED <<fields, n, char_limit, pos, batch, current_chars, csv_buff,
                   yielded, bpc>>
    /\ UNCHANGED <<api_class, job_batches, result, job_result, closed, polls,
                   batch_ids, results>>
    /\ UNCHANGED svars
    /\ UNCHANGED <<rvars, lvars, gvars>>

\* A BulkApiDmlOperation (lines 299-311) or a RestApiDmlOperation
\* (lines 407-421) was constructed and the caller has records for its
\* first load_records call.
InitReload ==
    /\ n = DefaultN
    /\ char_limit = DefaultCharLimit
    /\ pos = 0
    /\ batch = <<>>
    /\ current_chars = 0
    /\ csv_buff = <<>>
    /\ yielded = <<>>
    /\ bpc = "idle"
    /\ pc = "start"
    /\ job_batches = <<>>
    /\ result = NoResult
    /\ job_result = NoResult
    /\ closed = 0
    /\ polls = 0
    /\ batch_ids = <<>>
    /\ results = <<>>
    /\ error = "none"
    /\ operation \in {"INSERT", "DELETE"}
    /\ volume = 0
    /\ sobject = "Account"
    /\ record_count_response = <<>>
    /\ count_fetches = 0
    /\ platform = LifeInfo
    /\ LogIdle
    /\ ResultsIdle
    /\ query_response = NoResponse
    /\ \/ /\ api_class = "BulkApiDmlOperation"
          /\ api = "BULK"
          /\ records \in SeqsUpTo(RecordPool, MaxReloadRecs)
          /\ fields \in FieldsPool
          /\ batch_size = 0
          /\ boolean_fields = <<>>
       \/ /\ api_class = "RestApiDmlOperation"
          /\ api = "REST"
          /\ records \in SeqsUpTo(RestRecordPool, MaxReloadRecs)
          /\ fields = <<FieldId, FieldB>>
          /\ batch_size \in 1..MaxChunk
          /\ boolean_fields \in {<<>>, <<FieldB>>}

NextReload ==
    \/ Start
    \/ BulkLoadRecords
    \/ RestLoadRecords
    \/ LoadMore
    \/ EndCloseJob
    \/ RestEnd

SpecReload == InitReload /\ [][NextReload]_vars

(***************************************************************************)
(* Properties of the partitioner (checked under SpecBatch).                *)
(***************************************************************************)
RECURSIVE BatchSize(_)
BatchSize(b) == IF b = <<>> THEN 0 ELSE Len(Head(b)) + BatchSize(Tail(b))

SerializedRecords ==
    [i \in 1..Len(records) |-> _serialize_csv_record(<<>>, records[i])]

YieldedRecords == Concat([i \in 1..Len(yielded) |-> Tail(yielded[i])])

\* C1: when the generator is exhausted, the yielded batches with their
\* header row removed, concatenated in emission order, are the serialized
\* input records in input order (nothing lost, duplicated or reordered).
C1_Concatenation ==
    bpc = "done" => YieldedRecords = SerializedRecords

\* C1 witness: three records were split over at least two batches.
C1_Witness ==
    /\ bpc = "done"
    /\ Len(records) = 3
    /\ Len(yielded) >= 2
    /\ \E i \in 1..Len(yielded) : Len(yielded[i]) >= 3

\* C2 as stated, read on the batches that hold a record: every such batch
\* fits in char_limit (header included), except a batch of the header plus
\* exactly one record whose own size exceeds char_limit.
C2_Original ==
    \A i \in 1..Len(yielded) :
        Len(yielded[i]) >= 2 =>
            \/ BatchSize(yielded[i]) <= char_limit
            \/ /\ Len(yielded[i]) = 2
               /\ Len(yielded[i][2]) > char_limit

\* C2 amended: every yielded batch fits in char_limit, except batches that
\* hold the header and at most one record; such a batch is emitted even
\* when header and record together exceed char_limit, whether or not the
\* record alone exceeds it.
C2_SizeLimit ==
    \A i \in 1..Len(yielded) :
        \/ BatchSize(yielded[i]) <= char_limit
        \/ Len(yielded[i]) <= 2

\* C2 witness: a batch of two records that fits, and a batch of one record
\* that fits alone but not together with the header.
C2_Witness ==
    /\ bpc = "done"
    /\ \E i \in 1..Len(yielded) :
          /\ Len(yielded[i]) = 3
          /\ BatchSize(yielded[i]) <= char_limit
    /\ \E i \in 1..Len(yielded) :
          /\ Len(yielded[i]) = 2
          /\ BatchSize(yielded[i]) > char_limit
          /\ Len(yielded[i][2]) <= char_limit

C3_CountInv ==
    /\ \A i \in 1..Len(yielded) : Len(yielded[i]) - 1 <= n
    /\ bpc \in {"loop", "yield350"} => Len(batch) - 1 < n

\* The count is tested on the batch once the record is in it: a batch of
\* exactly n records is yielded at once.
C3_Counted(opened) ==
    /\ batch' = opened
    /\ yielded' = IF Len(opened) - 1 = n THEN Append(yielded, opened)
                  ELSE yielded

\* The steps of the loop: the byte limit is tested against the record about
\* to be appended (an overflowing record first closes the batch, and then
\* opens the next one when the generator is resumed), the count after the
\* record was appended; a batch closed by the count is replaced by the
\* header when the generator is resumed.
C3_Iteration ==
    LET header == _serialize_csv_record(<<>>, fields)
    IN  /\ (bpc = "loop" /\ pos < Len(records)) =>
              LET r == _serialize_csv_record(<<>>, records[pos + 1])
              IN  IF r = UnicodeEncodeError
                  THEN UNCHANGED <<batch, yielded>>
                  ELSE IF Len(r) + current_chars > char_limit
                  THEN batch' = batch /\ yielded' = Append(yielded, batch)
                  ELSE C3_Counted(Append(batch, r))
        /\ bpc = "yield350" =>
              C3_Counted(<<header, _serialize_csv_record(<<>>, records[pos])>>)
        /\ bpc = "yield360" =>
              batch' = <<header>> /\ yielded' = yielded

\* C3: no yielded batch holds more than n records, the batch under
\* construction always holds fewer than n (it is closed as soon as it holds
\* exactly n, the count being checked after appending), and the byte limit
\* is checked against the next record before it is appended.
C3_RecordLimit == [] C3_CountInv /\ [][C3_Iteration]_vars

\* C3 witness: a batch was closed by the count with exactly n records and
\* another was closed by the byte limit with fewer.
C3_Witness ==
    /\ bpc = "done"
    /\ n = 2
    /\ \E i \in 1..Len(yielded) : Len(yielded[i]) - 1 = n
    /\ \E i \in 1..Len(yielded) : Len(yielded[i]) - 1 = 1 /\ i < Len(yielded)

\* C20 as stated: every batch yielded by _batch holds the header row
\* followed by at least one record; a header-only batch is never emitted.
C20_NoHeaderOnlyBatch ==
    \A i \in 1..Len(yielded) : Len(yielded[i]) >= 2

(***************************************************************************)
(* Properties of the synchronous DML operation (checked under SpecRest).   *)
(***************************************************************************)
RestCalls == SelectSeq(calls, LAMBDA c : c.name = "restful")

\* What the composite calls carried, in call order: the Ids of a delete,
\* the records of an insert or update.
RestSubmitted ==
    Concat([c \in 1..Len(RestCalls) |->
               IF operation = "DELETE" THEN RestCalls[c].arg.ids
               ELSE RestCalls[c].arg.records])

\* What load_records has to submit for the input records, in input order.
RestExpected ==
    [i \in 1..Len(records) |->
        IF operation = "DELETE"
        THEN _convert(records[i], operation, fields, boolean_fields,
                      sobject).fields[FieldId]
        ELSE _convert(records[i], operation, fields, boolean_fields, sobject)]

RestLoaded == api_class = "RestApiDmlOperation" /\ pc \in {"end", "done"}

\* C11: once load_records has returned for N records and chunk size s, it
\* has issued exactly ceil(N/s) composite calls (none for N = 0), each of
\* at most s records, and the chunks concatenated in call order are the
\* input sequence; when the platform answers one result per record in
\* request order, get_results yields exactly one DataOperationResult per
\* input record, in input order.
C11_Chunks ==
    RestLoaded =>
        /\ Len(RestCalls) = (Len(records) + batch_size - 1) \div batch_size
        /\ \A c \in 1..Len(RestCalls) :
              /\ Len(RestCalls[c].arg.ids) <= batch_size
              /\ Len(RestCalls[c].arg.records) <= batch_size
              /\ Len(RestCalls[c].arg.ids) + Len(RestCalls[c].arg.records) >= 1
        /\ RestSubmitted = RestExpected
        /\ Len(out) <= Len(records)
        /\ \A i \in 1..Len(out) : out[i] = RestResult(RestAnswer(i, out[i].success))
        /\ gpc = "finished" => Len(out) = Len(records)

\* C11 witness: three records were submitted in two chunks and get_results
\* has yielded their three results, a failed one among them.
C11_Witness ==
    /\ RestLoaded
    /\ Len(records) = 3
    /\ batch_size = 2
    /\ Len(RestCalls) = 2
    /\ gpc = "finished"
    /\ Len(out) = 3
    /\ \E i \in 1..3 : ~out[i].success

\* C12: after load_records has returned, job_result.status is ROW_FAILURE
\* if a returned result has success = false and SUCCESS otherwise,
\* records_processed is the number of returned results, total_row_errors
\* the number of them with success = false, job_errors is empty and
\* total_row_errors <= records_processed.
C12_RestJobResult ==
    RestLoaded =>
        LET failures == {i \in 1..Len(results) : ~results[i].success}
        IN  /\ job_result.status =
                  IF failures # {} THEN "ROW_FAILURE" ELSE "SUCCESS"
            /\ job_result.records_processed = Len(results)
            /\ job_result.total_row_errors = Cardinality(failures)
            /\ job_result.job_errors = <<>>
            /\ job_result.total_row_errors <= job_result.records_processed

\* C12 witness: two of three results failed.
C12_Witness ==
    /\ RestLoaded
    /\ Len(results) = 3
    /\ job_result.status = "ROW_FAILURE"
    /\ job_result.total_row_errors = 2

\* C16 as stated: in every submitted record of an insert, a field whose
\* input value is None or "" is absent, whatever its type; in every
\* submitted record of an update every mapped field is present, and a field
\* whose input value is None is submitted as None.
C16_EmptyFields ==
    (RestLoaded /\ operation \in {"INSERT", "UPDATE"}) =>
        \A i \in 1..Len(records) :
            LET input == Zip(fields, records[i])
                sent == RestSubmitted[i].fields
            IN  \A k \in DOMAIN input :
                    IF operation = "INSERT"
                    THEN input[k] \in {PyNone, <<>>} => k \notin DOMAIN sent
                    ELSE /\ k \in DOMAIN sent
                         /\ input[k] = PyNone => sent[k] = PyNone

(***************************************************************************)
(* Properties of the job poller (checked under SpecPoll).                  *)
(***************************************************************************)
\* The last poll has derived an outcome from job_batches.
Polled == pc \in {"sleep", "done"}

PolledStates == {job_batches[i].state : i \in 1..Len(job_batches)}

RECURSIVE TotalRecordsFailed(_)
TotalRecordsFailed(xml) ==
    IF xml = <<>> THEN 0
    ELSE (IF Head(xml).numberRecordsFailed = <<>> THEN 0
          ELSE Head(xml).numberRecordsFailed[1])
         + TotalRecordsFailed(Tail(xml))

\* C4: the outcome follows the first-match precedence Not Processed ->
\* ABORTED, InProgress or Queued -> IN_PROGRESS, Failed -> JOB_FAILURE, else
\* ROW_FAILURE or SUCCESS; job_errors holds the captured state messages when
\* the outcome is JOB_FAILURE and is empty for every other outcome.
C4_Precedence ==
    Polled =>
        /\ IF "Not Processed" \in PolledStates
           THEN result.status = "ABORTED"
           ELSE IF PolledStates \cap {"InProgress", "Queued"} # {}
           THEN result.status = "IN_PROGRESS"
           ELSE IF "Failed" \in PolledStates
           THEN result.status = "JOB_FAILURE"
           ELSE result.status \in {"ROW_FAILURE", "SUCCESS"}
        /\ IF result.status = "JOB_FAILURE"
           THEN result.job_errors = IterFindStateMessage(job_batches)
           ELSE result.job_errors = <<>>

\* C4 witness: a job whose only batch is Not Processed and carries a state
\* message was polled: ABORTED with no job errors.
C4_Witness ==
    /\ pc = "done"
    /\ Len(job_batches) = 1
    /\ job_batches[1].state = "Not Processed"
    /\ job_batches[1].stateMessage # <<>>
    /\ result.status = "ABORTED"
    /\ result.job_errors = <<>>

\* C5 as stated: once any batch reports Failed the derived outcome is
\* JOB_FAILURE, whatever the states of the other batches.
C5_Original ==
    (Polled /\ "Failed" \in PolledStates) => result.status = "JOB_FAILURE"

\* C5 amended: once any batch reports Failed and no batch is Not Processed,
\* InProgress or Queued, the derived outcome is JOB_FAILURE, whatever the
\* other batches report.
C5_FailedWins ==
    (/\ Polled
     /\ "Failed" \in PolledStates
     /\ PolledStates \cap {"Not Processed", "InProgress", "Queued"} = {})
        => result.status = "JOB_FAILURE"

\* C5 witness: a Failed batch next to a Completed batch with failed rows.
C5_Witness ==
    /\ pc = "done"
    /\ PolledStates = {"Failed", "Completed"}
    /\ \E i \in 1..Len(job_batches) :
          /\ job_batches[i].state = "Completed"
          /\ job_batches[i].numberRecordsFailed = <<1>>
    /\ result.status = "JOB_FAILURE"

\* C6 as stated: for a job of one or more batches none of which is Not
\* Processed, InProgress, Queued or Failed, the outcome is ROW_FAILURE iff
\* the record-failure count summed over all batches is positive, and
\* SUCCESS otherwise.
C6_RowFailure ==
    (/\ Polled
     /\ Len(job_batches) >= 1
     /\ PolledStates \cap {"Not Processed", "InProgress", "Queued", "Failed"} = {})
        => result.status = IF TotalRecordsFailed(job_batches) > 0
                           THEN "ROW_FAILURE" ELSE "SUCCESS"

Terminal == {"SUCCESS", "ROW_FAILURE", "JOB_FAILURE", "ABORTED"}

\* C7: _wait_for_job returns only on an outcome other than IN_PROGRESS:
\* a stored job_result has status SUCCESS, ROW_FAILURE, JOB_FAILURE or
\* ABORTED and is the outcome derived by the last poll (no batch was Queued
\* or InProgress at that poll unless a batch was Not Processed); it is
\* stored once end() or query() has returned and is None as long as the
\* poller has not returned, which is asleep only after a poll that derived
\* IN_PROGRESS.
C7_TerminalResult ==
    /\ job_result # NoResult =>
          /\ job_result.status \in Terminal
          /\ job_result = result
          /\ polls >= 1
          /\ "Not Processed" \notin PolledStates =>
                PolledStates \cap {"InProgress", "Queued"} = {}
    /\ pc = "done" => job_result # NoResult
    /\ pc \in {"query", "end", "poll", "sleep"} => job_result = NoResult
    /\ pc = "sleep" => result.status = "IN_PROGRESS"

\* C7 witness: the operation returned after three polls, the first two of
\* which derived IN_PROGRESS.
C7_Witness ==
    /\ pc = "done"
    /\ polls = 3
    /\ job_result.status \in Terminal
    /\ job_result = result

(***************************************************************************)
(* Properties of the selectors and of the DML lifecycle (checked under     *)
(* SpecSelect).                                                            *)
(***************************************************************************)
DmlSelected == operation \in DmlOperationTypes /\ api_class # "none"

QuerySelected == operation = "QUERY" /\ api_class # "none"

\* C8: with api SMART get_dml_operation selects the bulk class iff
\* volume > 2000 or the operation is HARD_DELETE (2500 insert -> bulk, 2000
\* insert -> REST, hardDelete of volume 1 -> bulk); with api BULK or REST
\* the requested class is used whatever the volume and operation.
C8_DmlSelection ==
    DmlSelected =>
        /\ api = "SMART" =>
              (api_class = "BulkApiDmlOperation"
                  <=> (volume > 2000 \/ operation = "HARD_DELETE"))
        /\ api = "SMART" => api_class \in {"BulkApiDmlOperation",
                                           "RestApiDmlOperation"}
        /\ (api = "SMART" /\ volume = 2500 /\ operation = "INSERT")
              => api_class = "BulkApiDmlOperation"
        /\ (api = "SMART" /\ volume = 2000 /\ operation = "INSERT")
              => api_class = "RestApiDmlOperation"
        /\ (api = "SMART" /\ volume = 1 /\ operation = "HARD_DELETE")
              => api_class = "BulkApiDmlOperation"
        /\ api = "BULK" => api_class = "BulkApiDmlOperation"
        /\ api = "REST" => api_class = "RestApiDmlOperation"

\* C8 witness: an insert of volume exactly 2000 under SMART got the REST
\* class.
C8_Witness ==
    /\ DmlSelected
    /\ api = "SMART"
    /\ operation = "INSERT"
    /\ volume = 2000
    /\ api_class = "RestApiDmlOperation"

\* The count the response reports for the queried object: that of the last
\* entry naming it (the empty sequence when no entry names it).
ReportedCount ==
    LET named == {i \in 1..Len(record_count_response) :
                     record_count_response[i].name = sobject}
    IN  IF named = {} THEN <<>>
        ELSE <<record_count_response[
                   CHOOSE i \in named : \A j \in named : j <= i].count>>

\* C9: with api SMART get_query_operation selects the bulk class iff the
\* record-count response reports a count >= 2000 for the queried object,
\* and the REST class otherwise (also when the object is absent from the
\* response); with api BULK or REST the requested class is used and the
\* record count is not fetched.
C9_QuerySelection ==
    QuerySelected =>
        /\ api = "SMART" =>
              /\ api_class = IF ReportedCount # <<>> /\ ReportedCount[1] >= 2000
                             THEN "BulkApiQueryOperation"
                             ELSE "RestApiQueryOperation"
              /\ count_fetches = 1
        /\ api = "BULK" =>
              api_class = "BulkApiQueryOperation" /\ count_fetches = 0
        /\ api = "REST" =>
              api_class = "RestApiQueryOperation" /\ count_fetches = 0

\* C9 witness: under SMART an object reported with exactly 2000 records got
\* the bulk class, the response also naming another object.
C9_Witness ==
    /\ QuerySelected
    /\ api = "SMART"
    /\ ReportedCount = <<2000>>
    /\ Len(record_count_response) = 2
    /\ \E i \in 1..2 : record_count_response[i].name # sobject
    /\ api_class = "BulkApiQueryOperation"
    /\ count_fetches = 1

\* C10 as stated: for each of insert, update, delete and hardDelete and for
\* an explicitly requested bulk or REST strategy, start -> load_records ->
\* end raises no error of its own (a transport failure of a status poll
\* aside) and leaves a job_result that is not None.
C10_EveryKindEitherStrategy ==
    (operation \in DmlOperationTypes /\ api \in {"BULK", "REST"}) =>
        /\ error # "KeyError"
        /\ pc = "done" => job_result # NoResult

(***************************************************************************)
(* Properties of download_file and of the get_results generators (checked *)
(* under SpecResults).                                                     *)
(***************************************************************************)
ScopeOpen == gpc \in {"streaming", "suspended"}

\* C13: in every state where no download_file scope is open no temporary
\* result file exists: the file is removed when the scope is left after the
\* rows are exhausted, after a failed fetch, after a parse failure or a
\* consumer error while streaming, and after the return on the sentinel.
C13_TempRemoved == ~ScopeOpen => ~temp_exists

\* C13 witness: one scope was left after its rows were exhausted and the
\* next one by a failure, and no temporary file is left.
C13_Witness ==
    /\ gpc = "raised"
    /\ gidx = 1
    /\ Len(downloads) = 2
    /\ out # <<>>
    /\ ~temp_exists

\* C14 as stated: whenever get_results of either Bulk API operation fails
\* to fetch or to parse a result set, the exception that reaches the caller
\* is a BulkDataException that identifies the batch.
C14_TypedFailure ==
    gpc = "raised" =>
        /\ gerror.type = "BulkDataException"
        /\ gerror.batch = IF api_class = "BulkApiDmlOperation"
                          THEN batch_ids[gidx + 1] ELSE 1

\* Column 0 is the identifier, column 1 the success flag, column 3 the
\* error message.
ExpectedResult(row) ==
    IF row[2] = StrTrue
    THEN [id |-> row[1], success |-> TRUE, error |-> PyNone]
    ELSE [id |-> PyNone, success |-> FALSE, error |-> row[4]]

\* The rows get_results has read so far: those of the result sets it is
\* done with and the rows read of the current one.
RowsRead ==
    Concat([i \in 1..gidx |-> result_files[i].rows])
    \o (IF gidx < Len(result_files)
        THEN SubSeq(result_files[gidx + 1].rows, 1, grow) ELSE <<>>)

\* C15: in BulkApiDmlOperation.get_results the batches are downloaded once
\* each in submission order and every row read is yielded in order, a row
\* with a false success flag as a result without id and with the error
\* column as error; when the retrieval of the k-th batch fails, enumeration
\* has ended: the results of batches 1..k-1 were yielded, nothing of a
\* later batch is, batch k was downloaded once and the error names it.
C15_FailFast ==
    api_class = "BulkApiDmlOperation" =>
        /\ out = [i \in 1..Len(RowsRead) |-> ExpectedResult(RowsRead[i])]
        /\ Len(downloads) <= Len(batch_ids)
        /\ downloads = [i \in 1..Len(downloads) |-> batch_ids[i]]
        /\ gpc = "raised" =>
              /\ Len(downloads) = gidx + 1
              /\ gerror = [type |-> "BulkDataException",
                           batch |-> batch_ids[gidx + 1]]
              /\ Len(out) >= Len(Concat([i \in 1..gidx |->
                                            result_files[i].rows]))

\* C15 witness: the first batch had a failed row followed by another row,
\* both yielded, and the retrieval of the second batch failed.
C15_Witness ==
    /\ api_class = "BulkApiDmlOperation"
    /\ gpc = "raised"
    /\ gidx = 1
    /\ gerror.batch = 2
    /\ Len(out) = 2
    /\ ~out[1].success
    /\ out[1].id = PyNone

\* C19 as stated: when BulkApiQueryOperation.get_results is exhausted it
\* has yielded the data rows of every result set of the batch, in order; a
\* sentinel result set contributes no row and the rows of the other result
\* sets are still yielded.
C19_AllResultSets ==
    (api_class = "BulkApiQueryOperation" /\ gpc = "finished") =>
        out = Concat([i \in 1..Len(result_files) |-> result_files[i].rows])

(***************************************************************************)
(* Properties of the lifecycle of a Bulk API DML operation (checked under  *)
(* SpecLife).                                                              *)
(***************************************************************************)
CallsNamed(name) == SelectSeq(calls, LAMBDA c : c.name = name)

\* The place of a collaborator call in the lifecycle of one job.
Rank(name) ==
    CASE name = "create_job" -> 1
      [] name = "post_batch" -> 2
      [] name = "close_job" -> 3
      [] name = "job_status" -> 4
      [] name = "download" -> 5

\* C17: the collaborator calls of one bulk DML job occur in the order
\* create_job (once), post_batch per partition in partition order,
\* close_job (once), one or more status polls, result downloads in batch
\* submission order; no batch is posted after close_job, no poll happens
\* before close_job, and job_result stays None until end() has finished
\* polling.  A load_records that raises (a record cannot be encoded) has
\* posted the partitions yielded before; the scope then closes and polls
\* the job like end() does, in the same order.
C17_CallOrder ==
    LET partitions == _batch(<<>>, records, fields, n, char_limit)
        posts == CallsNamed("post_batch")
        gets == CallsNamed("download")
        early == pc \in {"start", "load", "end"} \/ ScopeRaised
    IN  /\ \A i, j \in 1..Len(calls) :
              i < j => Rank(calls[i].name) <= Rank(calls[j].name)
        /\ Len(CallsNamed("create_job")) = IF pc = "start" THEN 0 ELSE 1
        /\ Len(CallsNamed("close_job")) = IF early THEN 0 ELSE 1
        /\ Len(posts) = IF pc \in {"start", "load"} THEN 0 ELSE Len(partitions)
        /\ \A i \in 1..Len(posts) :
              /\ posts[i].arg.data = partitions[i]
              /\ posts[i].arg.batch = batch_ids[i]
        /\ early => CallsNamed("job_status") = <<>>
        /\ (pc \in {"sleep", "done", "final", "error"} /\ ~early) =>
              CallsNamed("job_status") # <<>>
        /\ gets # <<>> => pc = "done"
        /\ Len(gets) <= Len(batch_ids)
        /\ \A i \in 1..Len(gets) : gets[i].arg.batch = batch_ids[i]
        /\ (job_result = NoResult) <=> (pc \notin {"done", "final"})

\* C17 witness: a job of two batches was polled at least twice and the
\* results of both batches were downloaded.
C17_Witness ==
    /\ pc = "done"
    /\ Len(batch_ids) = 2
    /\ polls >= 2
    /\ gpc = "finished"
    /\ Len(CallsNamed("download")) = 2
    /\ Len(out) = 2

(***************************************************************************)
(* Properties of _wait_for_job under fair scheduling (checked under        *)
(* SpecWait).                                                              *)
(***************************************************************************)
\* The platform reports no batch as InProgress or Queued.
Settled ==
    \A i \in 1..Len(job_batches) :
        job_batches[i].state \notin {"InProgress", "Queued"}

\* After k polls k-1 sleeps were made, and a k-th one only when the k-th
\* poll derived IN_PROGRESS; the poller then has not returned.
C18_Sleeps ==
    /\ pc = "poll" => sleeps = polls
    /\ pc = "sleep" => /\ sleeps = polls - 1
                       /\ result.status = "IN_PROGRESS"
                       /\ job_result = NoResult
    /\ pc = "done" => /\ polls >= 1
                      /\ sleeps = polls - 1

\* C18: if from some poll on the platform reports no InProgress and no
\* Queued batch and no poll fails, _wait_for_job eventually returns; after
\* each of the first k polls (k below the bound of the model) that derives
\* IN_PROGRESS the poller has not returned and makes a (k+1)-th poll, with
\* exactly one sleep between consecutive polls and none after the last.
C18_Polling ==
    /\ []C18_Sleeps
    /\ ([](pc # "error") /\ <>[]Settled) => <>(pc = "done")
    /\ \A k \in 1..(MaxPolls - 1) :
          (pc = "sleep" /\ polls = k) ~>
              ((polls = k + 1 /\ sleeps = k) \/ pc = "error")

\* C18 witness: the poller returned after its third poll and two sleeps.
C18_Witness ==
    /\ pc = "done"
    /\ polls = 3
    /\ sleeps = 2

(***************************************************************************)
(* Properties of repeated load_records calls (checked under SpecReload).   *)
(***************************************************************************)
\* The identifiers of the batches posted to the job since start(), in
\* submission order.
PostedIds ==
    [i \in 1..Len(CallsNamed("post_batch")) |->
        CallsNamed("post_batch")[i].arg.batch]

\* The number of records submitted by the composite calls of the instance.
RestSubmittedCount ==
    Len(Concat([c \in 1..Len(RestCalls) |->
                   IF operation = "DELETE" THEN RestCalls[c].arg.ids
                   ELSE RestCalls[c].arg.records]))

\* C21 as stated: after any sequence of load_records calls, batch_ids of a
\* BulkApiDmlOperation holds the identifier of every batch posted since
\* start(), in submission order, and results and job_result of a
\* RestApiDmlOperation cover every record the instance submitted.
C21_AllSubmitted ==
    (pc = "end" /\ loads >= 1) =>
        IF api_class = "BulkApiDmlOperation"
        THEN batch_ids = PostedIds
        ELSE /\ Len(results) = RestSubmittedCount
             /\ job_result.records_processed = RestSubmittedCount

(***************************************************************************)
(* Closing of the bulk job (checked under SpecPoll).                       *)
(***************************************************************************)
\* A job was created for the operation: the job of a DML operation exists
\* since start(); bulk.query is called only with the job create_query_job
\* has returned.
JobCreated ==
    \/ api_class = "BulkApiDmlOperation"
    \/ CallsNamed("query") # <<>>

\* C22 as stated: when end() of a bulk DML operation or query() of a bulk
\* query operation has exited, by returning or by a transport error, and a
\* job had been created, close_job was called exactly once on the job.
C22_ClosedOnce ==
    (pc \in {"done", "error"} /\ JobCreated) =>
        /\ closed = 1
        /\ Len(CallsNamed("close_job")) = 1

====
